---- MODULE Spec2Model ----
(***************************************************************************)
(* computer-use-mcp: the action-routing and sequencing core.               *)
(*                                                                         *)
(*   - the capability handlers (KeyboardIO, MouseIO, GamepadIO,            *)
(*     ScreenshotIO) as far as their handleAction decides between a        *)
(*     result, a structured error response and a thrown error;             *)
(*   - the DI container and the Router (CallToolRequestSchema handler);    *)
(*   - the Sequence Engine (executeSequence);                              *)
(*   - the Autopress service (start / stop / stopAll and the interval      *)
(*     callbacks).                                                         *)
(*                                                                         *)
(* Names (tool names, action names) are sequences of underscore-free       *)
(* segments: <<"keyboard", "press">> is the string "keyboard_press".       *)
(* Strings whose characters matter (autopress ids) are sequences of        *)
(* one-character strings.  Optional values are Absent or Some(v).          *)
(***************************************************************************)
EXTENDS Integers, Sequences, FiniteSets, Bags, TLC

VARIABLES
    \* environment and shared state
    instances,          \* DIContainer.instances: name -> IO class instance
    selectedWindowId,   \* window-context.ts: the stored selection
    isWindows,          \* process.platform === 'win32'
    hasDriver,          \* the ViGEm driver is installed: import, connect succeed
    windows,            \* the windows getWindows() enumerates, in its order
    windowJail,         \* WindowJailManager: config.enabled && config.enforce, and
                        \* the window autoSelectJailedWindow matched at startup
    gamepad,            \* GamepadIO: initialized, and the state of its controller
    \* AutopressService
    autopresses,        \* Map id -> AutopressState
    commandExecutor,    \* FALSE for null, TRUE once the server installed its executor
    intervals,          \* the handles of the live setInterval timers
    configOf,           \* handle -> the config the timer's callback closes over, while
                        \* the timer is live or one of its callbacks is in progress
    nextHandle,         \* the next fresh timer handle
    ticks,              \* interval callbacks in progress: a bag of [timer, pos]
    starting,           \* start() calls suspended at `await this.stop(config.id)`
    returned,           \* what the most recently completed service call returned
    cleared,            \* history: the handles of the entries a returned call removed
    \* Router and Sequence Engine
    sequence,           \* the arguments and locals of the executeSequence call in
                        \* progress (pc "loop" / "await") or last returned
    invoked,            \* history: the handleAction invocations of the current Router
                        \* call, each with the `window` of the params it was given
    routed,             \* what the Router's handler returned or threw last
    \* a client of the DI container
    resolved,           \* what the most recent container.resolve(key) returned or threw
    snapshot,           \* the Map the most recent container.getAll() returned
    registered,         \* history: the most recent register or clear call
    \* a caller of createErrorResponse
    errorCall           \* the arguments of a call, and the response once returned

\* An optional value: Absent for undefined / null, Some(v) for a value.
Absent == <<>>
Some(v) == <<v>>
Get(o) == o[1]

----------------------------------------------------------------------------
(* Bounds of the model *)

\* number of windows getWindows() enumerates
NumWindows == 2
\* longest command list of a sequence call
MaxCommands == 3
\* setInterval calls in one behaviour
MaxTimers == 3
\* interval callbacks that may be in progress at once
MaxInFlight == 2

----------------------------------------------------------------------------
(* Tool responses and errors *)

\* JSON null, as distinct from undefined (Absent) and from every Some(v)
Null == <<"null", "null">>

\* A handler either throws (threw) or returns a ToolResponse; content is the
\* list of the content items' types.  Of the items' payload: `shown` is the
\* window the image is cropped to (Absent: the whole screen, or no image),
\* `selectedWindow` the selectedWindow field of the text (Absent: null, or no
\* such field) and `json` the parsed JSON of an error response's text.
\* What the handler did to the desktop on the way is kept with the outcome:
\* `effects`, the backend calls in their order, and `focused`, the window it
\* brought to the foreground.
Throw(msg) ==
    [threw |-> TRUE, isError |-> FALSE, message |-> msg, content |-> <<>>,
     shown |-> Absent, selectedWindow |-> Absent, json |-> Absent,
     effects |-> <<>>, focused |-> Absent]
Respond(content) ==
    [threw |-> FALSE, isError |-> FALSE, message |-> "", content |-> content,
     shown |-> Absent, selectedWindow |-> Absent, json |-> Absent,
     effects |-> <<>>, focused |-> Absent]

\* A thrown value: an Error object (kind "Error": name, message, stack) or
\* any other value (a string, a number, a boolean, null, undefined, a plain
\* object), of which `str`, `num` hold the primitive.
Value(kind, name, message, stack, str, num) ==
    [kind |-> kind, name |-> name, message |-> message, stack |-> stack,
     str |-> str, num |-> num]

\* `new Error(message)`
NewError(message) == Value("Error", "Error", message, Some("at"), "", 0)

\* Number.prototype.toString of an integer
RECURSIVE Digits(_)
Digits(n) ==
    LET digit == <<"0", "1", "2", "3", "4", "5", "6", "7", "8", "9">>
    IN  IF n < 10 THEN digit[n + 1] ELSE Digits(n \div 10) \o digit[(n % 10) + 1]

\* String(value) of a value that is not an Error
String(value) ==
    CASE value.kind = "string" -> value.str
      [] value.kind = "number" ->
            IF value.num < 0 THEN "-" \o Digits(-value.num) ELSE Digits(value.num)
      [] value.kind = "boolean" -> IF value.num = 0 THEN "false" ELSE "true"
      [] value.kind = "null" -> "null"
      [] value.kind = "undefined" -> "undefined"
      [] value.kind = "object" -> "[object Object]"

\* JSON.parse(JSON.stringify(object)) of an object given as key -> optional
\* value: the keys whose value is undefined are left out
Stringified(object) ==
    [k \in {key \in DOMAIN object : object[key] # Absent} |-> Get(object[k])]

\* error-response.ts createErrorResponse(error, context): one text item,
\* isError set
createErrorResponseNamesConstructor(error, context) ==
    LET errorMessage == IF error.kind = "Error" THEN error.message ELSE String(error)
        errorName == IF error.kind = "Error" THEN "Error" ELSE error.kind
    IN  [Respond(<<"text">>) EXCEPT
            !.isError = TRUE,
            !.message = errorMessage,
            !.json = Some([success |-> FALSE,
                           error |-> Stringified([name |-> Some(errorName),
                                                  message |-> Some(errorMessage),
                                                  context |-> context,
                                                  stack |-> error.stack])])]

createErrorResponse(error, context) ==
    LET errorMessage == IF error.kind = "Error" THEN error.message ELSE String(error)
        errorName == IF error.kind = "Error" THEN error.name ELSE "Error"
        errorStack == IF error.kind = "Error" THEN error.stack ELSE Absent
    IN  [Respond(<<"text">>) EXCEPT
            !.isError = TRUE,
            !.message = errorMessage,
            !.json = Some([success |-> FALSE,
                           error |-> Stringified([name |-> Some(errorName),
                                                  message |-> Some(errorMessage),
                                                  context |-> context,
                                                  stack |-> errorStack])])]

\* a tool name as the string it is: <<"keyboard", "press">> is "keyboard_press"
RECURSIVE Joined(_)
Joined(name) ==
    IF name = <<>> THEN ""
    ELSE IF Len(name) = 1 THEN name[1]
    ELSE name[1] \o "_" \o Joined(Tail(name))

\* try { ... } catch (error) { return createErrorResponse(error,
\* `${class}.${action}`) }; what was done before the throw stays done
Caught(outcome, class, action) ==
    IF outcome.threw
    THEN [createErrorResponse(NewError(outcome.message),
                              Some(class \o "." \o Joined(action)))
             EXCEPT !.effects = outcome.effects, !.focused = outcome.focused]
    ELSE outcome

\* error-response.ts validateWindowId: the message thrown, "" when it returns
validateWindowId(windowId, maxWindowId) ==
    IF windowId < 0 THEN "Invalid window ID: cannot be negative"
    ELSE IF windowId >= maxWindowId THEN "Invalid window ID: exceeds available windows"
    ELSE ""

\* window-jail.ts validateJailEnforcement: the message thrown, "" when it
\* returns.  Only the selection is looked at, not whether its window exists.
validateJailEnforcement ==
    IF windowJail.enforced /\ selectedWindowId = Absent
    THEN "Window jail is active but no window is selected. "
            \o "The application must be running and visible. "
            \o "Please start it and try again."
    ELSE ""

\* window-context.ts getEffectiveWindow
getEffectiveWindowFalsy(explicitWindow) ==
    IF explicitWindow # Absent THEN explicitWindow
    ELSE IF selectedWindowId = Some(0) THEN Absent
    ELSE selectedWindowId

getEffectiveWindow(explicitWindow) ==
    IF explicitWindow # Absent THEN explicitWindow ELSE selectedWindowId

\* focusWindow(windowId): getWindows(), validateWindowId, focus
focusWindow(windowId) == validateWindowId(windowId, Len(windows))

\* `if (effectiveWindow !== undefined) await focusWindow(effectiveWindow)`:
\* the message thrown, "" when nothing is thrown
focusEffectiveWindow(explicitWindow) ==
    LET effectiveWindow == getEffectiveWindow(explicitWindow)
    IN  IF effectiveWindow # Absent THEN focusWindow(Get(effectiveWindow)) ELSE ""

\* what the same statement did when it did not throw: the outcome, with the
\* focus before its effects, windows[effectiveWindow] in the foreground
Focused(explicitWindow, outcome) ==
    LET effectiveWindow == getEffectiveWindow(explicitWindow)
    IN  IF effectiveWindow = Absent THEN outcome
        ELSE [outcome EXCEPT !.effects = <<"focus">> \o @,
                             !.focused = Some(windows[Get(effectiveWindow) + 1])]

\* the parameter bag of a call; every field is optional
NoParams ==
    [keys |-> Absent, text |-> Absent, coordinate |-> Absent, button |-> Absent,
     window |-> Absent, windowId |-> Absent, trigger |-> Absent,
     pressure |-> Absent, stick |-> Absent, x |-> Absent, y |-> Absent,
     direction |-> Absent, hold |-> Absent]

\* actions/screenshot.ts handleScreenshot: the window the screenshot is cropped
\* to, Absent when it is the whole screen
handleScreenshot ==
    IF selectedWindowId # Absent /\ Get(selectedWindowId) >= 0
          /\ Get(selectedWindowId) < Len(windows)
    THEN selectedWindowId
    ELSE Absent

\* the response of an input handler that did `input`: its own text item, then
\* the content of handleScreenshot() (a text item and the image)
AutoScreenshot(input) ==
    [Respond(<<"text", "text", "image">>) EXCEPT
        !.shown = handleScreenshot, !.effects = input \o <<"capture">>]

\* the same, with `selectedWindow: getSelectedWindow()` in the handler's text
InputResponse(input) == [AutoScreenshot(input) EXCEPT !.selectedWindow = selectedWindowId]

----------------------------------------------------------------------------
(* KeyboardIO (keyboard-io.ts) *)

handleKeyPress(params) ==
    IF params.keys = Absent
    THEN Throw("Keys parameter is required and must be a string")
    ELSE IF validateJailEnforcement # "" THEN Throw(validateJailEnforcement)
    ELSE IF focusEffectiveWindow(params.window) # ""
    THEN Throw(focusEffectiveWindow(params.window))
    ELSE Focused(params.window, InputResponse(<<"key">>))

handleType(params) ==
    IF params.text = Absent
    THEN Throw("Text parameter is required and must be a string")
    ELSE IF validateJailEnforcement # "" THEN Throw(validateJailEnforcement)
    ELSE IF focusEffectiveWindow(params.window) # ""
    THEN Throw(focusEffectiveWindow(params.window))
    ELSE Focused(params.window, InputResponse(<<"type">>))

KeyboardHandleAction(action, params) ==
    Caught(IF action = <<"keyboard", "press">> THEN handleKeyPress(params)
           ELSE IF action = <<"keyboard", "type">> THEN handleType(params)
           ELSE Throw("Unknown action: " \o Joined(action)),
           "KeyboardIO", action)

----------------------------------------------------------------------------
(* MouseIO: the variant with window targeting (index.ts:52) and the variant
   without a catch (mouse-io.ts:11) *)

handleMouseMoveUnchecked(params) ==
    IF params.coordinate = Absent
    THEN [Throw("coordinate is required for mouse_move") EXCEPT !.effects = <<"move">>]
    ELSE InputResponse(<<"move">>)

handleMouseMove(params) ==
    IF params.coordinate = Absent
    THEN Throw("coordinate is required for mouse_move")
    ELSE InputResponse(<<"move">>)

handleMouseClick(params) ==
    IF params.coordinate # Absent
    THEN InputResponse(<<"move", "click">>)
    ELSE InputResponse(<<"click">>)

MouseSwitch(action, params) ==
    IF action = <<"mouse", "move">> THEN handleMouseMove(params)
    ELSE IF action = <<"mouse", "click">> THEN handleMouseClick(params)
    ELSE Throw("Unknown mouse action: " \o Joined(action))

\* the jail and the effective window come before the switch
MouseHandleAction(action, params) ==
    Caught(IF validateJailEnforcement # "" THEN Throw(validateJailEnforcement)
           ELSE IF focusEffectiveWindow(params.window) # ""
           THEN Throw(focusEffectiveWindow(params.window))
           ELSE Focused(params.window, MouseSwitch(action, params)),
           "MouseIO", action)

\* the variant without targeting: no jail, no focus, no catch, and a text
\* without the selectedWindow field
MouseLegacyHandleAction(action, params) ==
    IF MouseSwitch(action, params).threw
    THEN MouseSwitch(action, params)
    ELSE [MouseSwitch(action, params) EXCEPT !.selectedWindow = Absent]

----------------------------------------------------------------------------
(* GamepadIO (mouse-io.ts:412).  A call is taken whole, hold included; the
   gamepad's own autopress_start / autopress_stop are not among the calls. *)

\* the axes of the controller
Axes ==
    {"leftX", "leftY", "rightX", "rightY", "leftTrigger", "rightTrigger",
     "dpadHorz", "dpadVert"}

ButtonNames == {"A", "B", "X", "Y", "LB", "RB", "Start", "Back", "Xbox", "L3", "R3"}
Directions == {"up", "down", "left", "right"}

\* initialize(): the message thrown, "" when the controller is ready
GamepadInitialize ==
    IF gamepad.initialized THEN ""
    ELSE IF ~isWindows
    THEN "Gamepad emulation is not supported on this platform. "
            \o "Supported platforms: Windows (requires ViGEm driver from "
            \o "https://github.com/nefarius/ViGEmBus)"
    ELSE IF ~hasDriver
    THEN "Failed to initialize gamepad: Cannot find module 'vigemclient'. "
            \o "Make sure ViGEm driver is installed: "
            \o "https://github.com/nefarius/ViGEmBus/releases"
    ELSE ""

\* initialize(): this.initialized once it has returned or thrown
GamepadInitializedAlways == TRUE

GamepadInitialized == gamepad.initialized \/ (isWindows /\ hasDriver)

handleButton(params) ==
    IF params.button = Absent \/ Get(params.button) \notin ButtonNames
    THEN Throw("Invalid button")
    ELSE AutoScreenshot(<<"button">>)

\* pressure is kept in 255ths, as given
handleTrigger(params) ==
    IF Get(params.pressure) < 0 \/ Get(params.pressure) > 255
    THEN Throw("Pressure must be between 0 and 255")
    ELSE AutoScreenshot(<<"trigger">>)

\* x and y are kept in 32767ths, as given
handleStick(params) ==
    IF Get(params.x) < -32768 \/ Get(params.x) > 32767
    THEN Throw("X must be between -32768 and 32767")
    ELSE IF Get(params.y) < -32768 \/ Get(params.y) > 32767
    THEN Throw("Y must be between -32768 and 32767")
    ELSE AutoScreenshot(<<"stick">>)

handleDpad(params) ==
    IF params.direction = Absent \/ Get(params.direction) \notin Directions
    THEN Throw("Invalid direction")
    ELSE AutoScreenshot(<<"dpad">>)

handleReset == AutoScreenshot(<<"reset">>)

GamepadSwitch(action, params) ==
    IF action = <<"gamepad", "button">> THEN handleButton(params)
    ELSE IF action = <<"gamepad", "trigger">> THEN handleTrigger(params)
    ELSE IF action = <<"gamepad", "stick">> THEN handleStick(params)
    ELSE IF action = <<"gamepad", "dpad">> THEN handleDpad(params)
    ELSE IF action = <<"gamepad", "reset">> THEN handleReset
    ELSE Throw("Unknown gamepad action: " \o Joined(action))

\* the jail and initialize() come before the switch
GamepadHandleAction(action, params) ==
    Caught(IF validateJailEnforcement # "" THEN Throw(validateJailEnforcement)
           ELSE IF GamepadInitialize # "" THEN Throw(GamepadInitialize)
           ELSE GamepadSwitch(action, params),
           "GamepadIO", action)

\* `hold = 100` of handleTrigger, the `hold` of handleStick: whether the
\* handler puts the axis back before it returns
Released(hold, default) ==
    IF hold = Absent THEN default > 0 ELSE Get(hold) > 0

\* the buttons once handleButton has returned: pressed, held, released
handleButtonButtons(params) == gamepad.buttons \ {Get(params.button)}

\* the axes once handleTrigger has returned: the pressure stays when hold is 0
handleTriggerAxes(params) ==
    LET triggerAxis == IF params.trigger = Some("LT") THEN "leftTrigger" ELSE "rightTrigger"
    IN  IF Released(params.hold, 100) THEN [gamepad.axes EXCEPT ![triggerAxis] = 0]
        ELSE [gamepad.axes EXCEPT ![triggerAxis] = Get(params.pressure)]

\* the axes once handleStick has returned: the position stays without a hold
handleStickAxesCentred(params) ==
    LET xAxis == IF params.stick = Some("left") THEN "leftX" ELSE "rightX"
        yAxis == IF params.stick = Some("left") THEN "leftY" ELSE "rightY"
    IN  [gamepad.axes EXCEPT ![xAxis] = 0, ![yAxis] = 0]

handleStickAxes(params) ==
    LET xAxis == IF params.stick = Some("left") THEN "leftX" ELSE "rightX"
        yAxis == IF params.stick = Some("left") THEN "leftY" ELSE "rightY"
    IN  IF Released(params.hold, 0)
        THEN [gamepad.axes EXCEPT ![xAxis] = 0, ![yAxis] = 0]
        ELSE [gamepad.axes EXCEPT ![xAxis] = Get(params.x), ![yAxis] = Get(params.y)]

\* the axes once handleDpad has returned: pressed, held, released
handleDpadAxes(params) ==
    LET axis == IF Get(params.direction) \in {"up", "down"} THEN "dpadVert" ELSE "dpadHorz"
    IN  [gamepad.axes EXCEPT ![axis] = 0]

\* the axes once handleReset has returned
handleResetAxesSticksOnly ==
    [a \in Axes |-> IF a \in {"leftX", "leftY", "rightX", "rightY"} THEN 0
                    ELSE gamepad.axes[a]]

handleResetAxes == [a \in Axes |-> 0]

\* `new ViGEmClient()` and `createX360Controller()` of an initialize() that
\* is not suspended: the count `created` after it
Created(created) ==
    IF ~gamepad.initialized /\ GamepadInitialize = "" THEN created + 1 ELSE created

\* the GamepadIO object once handleAction(action, params) has settled
GamepadAfter(action, params) ==
    IF validateJailEnforcement # "" THEN gamepad
    ELSE IF GamepadInitialize # ""
    THEN [gamepad EXCEPT !.initialized = GamepadInitialized]
    ELSE IF GamepadSwitch(action, params).threw
    THEN [gamepad EXCEPT !.initialized = GamepadInitialized,
                         !.clients = Created(@), !.controllers = Created(@)]
    ELSE [initialized |-> GamepadInitialized,
          importing |-> gamepad.importing,
          connecting |-> gamepad.connecting,
          clients |-> Created(gamepad.clients),
          controllers |-> Created(gamepad.controllers),
          holding |-> gamepad.holding,
          centering |-> gamepad.centering,
          buttons |-> IF action = <<"gamepad", "reset">> THEN {}
                      ELSE IF action = <<"gamepad", "button">>
                      THEN handleButtonButtons(params)
                      ELSE gamepad.buttons,
          axes |-> IF action = <<"gamepad", "trigger">> THEN handleTriggerAxes(params)
                   ELSE IF action = <<"gamepad", "stick">> THEN handleStickAxes(params)
                   ELSE IF action = <<"gamepad", "dpad">> THEN handleDpadAxes(params)
                   ELSE IF action = <<"gamepad", "reset">> THEN handleResetAxes
                   ELSE gamepad.axes]

----------------------------------------------------------------------------
(* ScreenshotIO (screenshot-io.ts) *)

\* the screen is grabbed before the window is validated
captureScreenshot(windowId) ==
    IF windowId # Absent /\ validateWindowId(Get(windowId), Len(windows)) # ""
    THEN [Throw(validateWindowId(Get(windowId), Len(windows))) EXCEPT
             !.effects = <<"capture">>]
    ELSE [Respond(<<"text", "image">>) EXCEPT !.shown = windowId,
                                              !.selectedWindow = selectedWindowId,
                                              !.effects = <<"capture">>]

ScreenshotHandleAction(action, params) ==
    Caught(IF action # <<"screenshot", "capture">>
           THEN Throw("Unknown action: " \o Joined(action))
           ELSE IF validateJailEnforcement # "" THEN Throw(validateJailEnforcement)
           ELSE captureScreenshot(getEffectiveWindow(params.window)),
           "ScreenshotIO", action)

----------------------------------------------------------------------------
(* WindowsIO (windows-io.ts) *)

\* handleList: the text carries selectedWindow
handleList == [Respond(<<"text">>) EXCEPT !.selectedWindow = selectedWindowId]

\* handleSelect(params.windowId): what it returns or throws.  null clears the
\* selection; undefined passes validateWindowId (no comparison with undefined
\* is true) and fails at `windows[undefined].title`.
handleSelect(windowId) ==
    IF windowId = Null THEN Respond(<<"text">>)
    ELSE IF windowId = Absent THEN Throw("Cannot read properties of undefined")
    ELSE IF validateWindowId(Get(windowId), Len(windows)) # ""
    THEN Throw(validateWindowId(Get(windowId), Len(windows)))
    ELSE [Respond(<<"text">>) EXCEPT !.selectedWindow = windowId]

\* handleSelect(params.windowId): the selection it leaves stored
\* (setSelectedWindow is reached only on the paths that do not throw)
handleSelectStoresUnvalidated(windowId) ==
    IF windowId = Null THEN Absent
    ELSE IF windowId # Absent THEN windowId
    ELSE selectedWindowId

handleSelectStores(windowId) ==
    IF windowId = Null THEN Absent
    ELSE IF windowId # Absent /\ validateWindowId(Get(windowId), Len(windows)) = ""
    THEN windowId
    ELSE selectedWindowId

\* handleFocus(params.windowId): validate, focus the window, report it with
\* selectedWindow
handleFocus(windowId) ==
    IF windowId = Null \/ windowId = Absent
    THEN Throw("Cannot read properties of undefined")
    ELSE IF validateWindowId(Get(windowId), Len(windows)) # ""
    THEN Throw(validateWindowId(Get(windowId), Len(windows)))
    ELSE [Respond(<<"text">>) EXCEPT !.selectedWindow = selectedWindowId,
                                     !.effects = <<"focus">>,
                                     !.focused = Some(windows[Get(windowId) + 1])]

\* handleInfo(params.windowId): the same without the focus
handleInfo(windowId) ==
    IF handleFocus(windowId).threw THEN handleFocus(windowId)
    ELSE [handleFocus(windowId) EXCEPT !.effects = <<>>, !.focused = Absent]

WindowsHandleAction(action, params) ==
    Caught(IF action = <<"windows", "list">> THEN handleList
           ELSE IF action = <<"windows", "select">> THEN handleSelect(params.windowId)
           ELSE IF action = <<"windows", "focus">> THEN handleFocus(params.windowId)
           ELSE IF action = <<"windows", "info">> THEN handleInfo(params.windowId)
           ELSE Throw("Unknown action: " \o Joined(action)),
           "WindowsIO", action)

----------------------------------------------------------------------------
(* The IOClass contract and the DI container *)

IOClasses ==
    {"KeyboardIO", "MouseIO", "MouseIOLegacy", "GamepadIO", "ScreenshotIO", "WindowsIO"}

isIOClass(obj) == obj \in IOClasses

\* ioClass.handleAction(action, params), by the class of the instance
HandleAction(ioClass, action, params) ==
    CASE ioClass = "KeyboardIO" -> KeyboardHandleAction(action, params)
      [] ioClass = "MouseIO" -> MouseHandleAction(action, params)
      [] ioClass = "MouseIOLegacy" -> MouseLegacyHandleAction(action, params)
      [] ioClass = "GamepadIO" -> GamepadHandleAction(action, params)
      [] ioClass = "ScreenshotIO" -> ScreenshotHandleAction(action, params)
      [] ioClass = "WindowsIO" -> WindowsHandleAction(action, params)

\* the stored selection once ioClass.handleAction(action, params) has settled:
\* of all the handlers, only WindowsIO.handleSelect writes it
selectsOnFocusToo(ioClass, action, params) ==
    IF ioClass = "WindowsIO" /\ action = <<"windows", "select">>
    THEN handleSelectStores(params.windowId)
    ELSE IF ioClass = "WindowsIO" /\ action = <<"windows", "focus">>
              /\ ~HandleAction(ioClass, action, params).isError
    THEN params.windowId
    ELSE selectedWindowId

SelectedAfter(ioClass, action, params) ==
    IF ioClass = "WindowsIO" /\ action = <<"windows", "select">>
    THEN handleSelectStores(params.windowId)
    ELSE selectedWindowId

\* the GamepadIO object once ioClass.handleAction(action, params) has settled
ControllerAfter(ioClass, action, params) ==
    IF ioClass = "GamepadIO" THEN GamepadAfter(action, params) ELSE gamepad

has(key) == key \in DOMAIN instances
resolve(key) == instances[key]

\* server wiring: container.register(...) for each IO class, with `mouse`
\* the MouseIO variant registered
Registration(mouse) ==
    [k \in {"keyboard", "mouse", "gamepad", "screenshot", "windows"} |->
        CASE k = "keyboard" -> "KeyboardIO"
          [] k = "mouse" -> mouse
          [] k = "gamepad" -> "GamepadIO"
          [] k = "screenshot" -> "ScreenshotIO"
          [] k = "windows" -> "WindowsIO"]


----------------------------------------------------------------------------
(* The Router (CallToolRequestSchema handler) for the tools of the IO
   classes *)

\* the handler for a name other than 'sequence': what it returns or throws
RouteTool(name, toolArgs) ==
    IF Len(name) < 2 THEN Throw("Invalid tool name")
    ELSE IF ~has(Head(name)) THEN Throw("Unknown tool category")
    ELSE IF ~isIOClass(resolve(Head(name))) THEN Throw("Invalid IO class")
    ELSE HandleAction(resolve(Head(name)), name, toolArgs)

\* the stored selection once the handler has returned or thrown
RouteSelection(name, toolArgs) ==
    IF Len(name) >= 2 /\ has(Head(name)) /\ isIOClass(resolve(Head(name)))
    THEN SelectedAfter(resolve(Head(name)), name, toolArgs)
    ELSE selectedWindowId

\* the GamepadIO object once the handler has returned or thrown
RouteController(name, toolArgs) ==
    IF Len(name) >= 2 /\ has(Head(name)) /\ isIOClass(resolve(Head(name)))
    THEN ControllerAfter(resolve(Head(name)), name, toolArgs)
    ELSE gamepad

----------------------------------------------------------------------------
(* The Sequence Engine (sequence-handler.ts executeSequence) *)

\* a content item of the engine's response: its type and the step whose
\* response it was taken from (0 for the engine's own summary)
Item(type, step) == [type |-> type, step |-> step]
ItemsOf(content, step) == [i \in 1..Len(content) |-> Item(content[i], step)]

\* results.push({command, success: true, response}); of the response, its
\* isError flag and the types of its content items
pushSuccessFirst(results, command, response) ==
    <<[tool |-> command.tool, action |-> command.action,
       success |-> TRUE, error |-> "", isError |-> response.isError,
       content |-> response.content]>> \o results

pushSuccess(results, command, response) ==
    Append(results, [tool |-> command.tool, action |-> command.action,
                     success |-> TRUE, error |-> "", isError |-> response.isError,
                     content |-> response.content])

\* results.push({command, success: false, error: errorMessage})
pushFailure(results, command, errorMessage) ==
    Append(results, [tool |-> command.tool, action |-> command.action,
                     success |-> FALSE, error |-> errorMessage, isError |-> FALSE,
                     content |-> <<>>])

successCount(results) == Cardinality({i \in DOMAIN results : results[i].success})
failureCount(results) == Cardinality({i \in DOMAIN results : ~results[i].success})

\* results.map((r) => ({command: {tool, action}, success, error}))
summaryResults(results) ==
    [i \in DOMAIN results |->
        [tool |-> results[i].tool, action |-> results[i].action,
         success |-> results[i].success, error |-> results[i].error]]

\* the summary pushed in the catch block when stopOnError is set
errorSummary(total, results, errorMessage) ==
    [status |-> "error", total |-> total, executed |-> Some(Len(results)),
     successful |-> successCount(results), failed |-> failureCount(results),
     error |-> errorMessage, results |-> summaryResults(results)]

\* the execution summary pushed after the loop
executionSummaryInverted(total, results) ==
    [status |-> IF failureCount(results) = 0 THEN "partial" ELSE "success",
     total |-> total, executed |-> Absent,
     successful |-> successCount(results), failed |-> failureCount(results),
     error |-> "", results |-> summaryResults(results)]

executionSummary(total, results) ==
    [status |-> IF failureCount(results) = 0 THEN "success" ELSE "partial",
     total |-> total, executed |-> Absent,
     successful |-> successCount(results), failed |-> failureCount(results),
     error |-> "", results |-> summaryResults(results)]

IsImage(type) == type = "image"

\* "If not capturing intermediate results, capture only the final screenshot"
finalScreenshotUnfiltered(captureIntermediate, results) ==
    IF ~captureIntermediate /\ Len(results) > 0 /\ results[Len(results)].success
    THEN ItemsOf(results[Len(results)].content, Len(results))
    ELSE <<>>

finalScreenshot(captureIntermediate, results) ==
    IF ~captureIntermediate /\ Len(results) > 0 /\ results[Len(results)].success
    THEN ItemsOf(SelectSeq(results[Len(results)].content, IsImage), Len(results))
    ELSE <<>>

\* "Apply shared window context if not overridden"
mergedParamsSharedWins(sharedWindow, params) ==
    IF sharedWindow # Absent
    THEN [params EXCEPT !.window = sharedWindow]
    ELSE params

mergedParams(sharedWindow, params) ==
    IF sharedWindow # Absent /\ params.window = Absent
    THEN [params EXCEPT !.window = sharedWindow]
    ELSE params

\* `if (stopOnError) { ...; return {content: allContent}; }` of the catch block
catchReturnsAlways(stopOnError) == TRUE

catchReturns(stopOnError) == stopOnError

----------------------------------------------------------------------------
(* The command executor the server installs into the autopress service
   (setCommandExecutor callback) *)

\* `${ioClassName}_${action}`
ToolName(ioClassName, action) == <<ioClassName>> \o action

serverCommandExecutor(ioClassName, action, params) ==
    IF ~has(ioClassName) THEN Throw("Unknown IO class")
    ELSE IF ~isIOClass(resolve(ioClassName)) THEN Throw("Invalid IO class")
    ELSE HandleAction(resolve(ioClassName), ToolName(ioClassName, action), params)

\* the stored selection once the executor has returned or thrown
executorSelection(ioClassName, action, params) ==
    IF has(ioClassName) /\ isIOClass(resolve(ioClassName))
    THEN SelectedAfter(resolve(ioClassName), ToolName(ioClassName, action), params)
    ELSE selectedWindowId

executorController(ioClassName, action, params) ==
    IF has(ioClassName) /\ isIOClass(resolve(ioClassName))
    THEN ControllerAfter(resolve(ioClassName), ToolName(ioClassName, action), params)
    ELSE gamepad

----------------------------------------------------------------------------
(* AutopressService (autopress-service.ts) *)

\* the minimum interval start() accepts
MinInterval == 10

\* String.prototype.trim on a sequence of characters
Whitespace == {" "}

RECURSIVE TrimStart(_)
TrimStart(s) == IF s # <<>> /\ Head(s) \in Whitespace THEN TrimStart(Tail(s)) ELSE s

RECURSIVE TrimEnd(_)
TrimEnd(s) ==
    IF s # <<>> /\ s[Len(s)] \in Whitespace THEN TrimEnd(SubSeq(s, 1, Len(s) - 1)) ELSE s

trim(s) == TrimEnd(TrimStart(s))

\* start(), "Validate config": the message thrown, "" when start goes on
StartValidateNoTrim(config) ==
    IF config.id = <<>> THEN "Autopress ID is required"
    ELSE IF Len(config.commands) = 0 THEN "At least one command is required"
    ELSE IF config.interval = 0 \/ config.interval < MinInterval
    THEN "Interval must be at least 10ms"
    ELSE IF ~commandExecutor THEN "Command executor not set"
    ELSE ""

StartValidate(config) ==
    IF config.id = <<>> \/ trim(config.id) = <<>> THEN "Autopress ID is required"
    ELSE IF Len(config.commands) = 0 THEN "At least one command is required"
    ELSE IF config.interval = 0 \/ config.interval < MinInterval
    THEN "Interval must be at least 10ms"
    ELSE IF ~commandExecutor THEN "Command executor not set"
    ELSE ""

\* f without the key k (Map.delete)
Delete(f, k) == [x \in DOMAIN f \ {k} |-> f[x]]

\* f with key k bound to v (Map.set)
Set(f, k, v) == [x \in DOMAIN f \cup {k} |-> IF x = k THEN v ELSE f[x]]

\* stop(id) on st = [autopresses, intervals]: the state it leaves and what it
\* returns
stopKeepsTimer(st, id) ==
    IF id \notin DOMAIN st.autopresses
    THEN [autopresses |-> st.autopresses, intervals |-> st.intervals, result |-> FALSE]
    ELSE [autopresses |-> Delete(st.autopresses, id),
          intervals |-> st.intervals,
          result |-> TRUE]

stopClearsEvery(st, id) ==
    IF id \notin DOMAIN st.autopresses
    THEN [autopresses |-> st.autopresses, intervals |-> st.intervals, result |-> FALSE]
    ELSE [autopresses |-> <<>>, intervals |-> {}, result |-> TRUE]

stop(st, id) ==
    IF id \notin DOMAIN st.autopresses
    THEN [autopresses |-> st.autopresses, intervals |-> st.intervals, result |-> FALSE]
    ELSE [autopresses |-> Delete(st.autopresses, id),
          intervals |-> st.intervals \ {st.autopresses[id].intervalId},
          result |-> TRUE]

\* stopAll() on st = [autopresses, intervals]
stopAllCountsAfter(st) ==
    [autopresses |-> <<>>,
     intervals |-> st.intervals
                     \ {st.autopresses[id].intervalId : id \in DOMAIN st.autopresses},
     result |-> 0]

stopAll(st) ==
    [autopresses |-> <<>>,
     intervals |-> st.intervals
                     \ {st.autopresses[id].intervalId : id \in DOMAIN st.autopresses},
     result |-> Cardinality(DOMAIN st.autopresses)]

\* start(), "Stop existing autopress with same ID if any"
stopExistingNever(st, config) == st

stopExisting(st, config) ==
    IF config.id \in DOMAIN st.autopresses
    THEN [autopresses |-> stop(st, config.id).autopresses,
          intervals |-> stop(st, config.id).intervals]
    ELSE st

\* start(), "Create autopress state": setInterval and autopresses.set
createState(st, config, handle) ==
    [autopresses |-> Set(st.autopresses, config.id,
                         [config |-> config, intervalId |-> handle, isRunning |-> TRUE]),
     intervals |-> st.intervals \cup {handle}]

\* executeSequence(commands) of one interval callback, after the command at
\* position pos has settled with `outcome`: the position of the next command
\* it invokes, 0 when the callback is over
executeSequenceAborts(commands, pos, outcome) ==
    IF outcome.threw THEN 0
    ELSE IF pos < Len(commands) THEN pos + 1 ELSE 0

executeSequenceNext(commands, pos, outcome) ==
    IF pos < Len(commands) THEN pos + 1 ELSE 0

----------------------------------------------------------------------------
(* Inputs of the autopress calls *)

Key(k) == [NoParams EXCEPT !.keys = Some(k)]
Btn(b) == [NoParams EXCEPT !.button = Some(b)]

\* a command for an IO class nobody registered, keyboard press
cmdsA ==
    << [ioClass |-> "ghost", action |-> <<"press">>, params |-> NoParams],
       [ioClass |-> "keyboard", action |-> <<"press">>, params |-> Key("w")] >>

\* keyboard press without keys, gamepad button
cmdsB ==
    << [ioClass |-> "keyboard", action |-> <<"press">>, params |-> NoParams],
       [ioClass |-> "gamepad", action |-> <<"button">>, params |-> Btn("A")] >>

Config(i, c, n) == [id |-> i, commands |-> c, interval |-> n]

\* the ids "x", "y", "" and " "
IdPool == {<<"x">>, <<"y">>, <<>>, <<" ">>}

\* the configs start() is called with: three it accepts, and one or two for
\* each way of being invalid
Configs ==
    { Config(<<"x">>, cmdsA, 50), Config(<<"x">>, cmdsB, 30),
      Config(<<"y">>, cmdsB, 10),
      Config(<<>>, cmdsA, 50), Config(<<" ">>, cmdsB, 30),
      Config(<<"x">>, <<>>, 50),
      Config(<<"x">>, cmdsA, 9), Config(<<"y">>, cmdsB, 0) }

Handles == 1..MaxTimers

----------------------------------------------------------------------------
(* State *)

hostVars == <<isWindows, hasDriver, windows, windowJail>>
envVars == <<instances, selectedWindowId, hostVars, gamepad>>
autoVars ==
    <<autopresses, commandExecutor, intervals, configOf, nextHandle, ticks,
      starting, returned, cleared>>
seqVars == <<sequence, invoked, routed>>
regVars == <<resolved, snapshot, registered>>
auxVars == <<regVars, errorCall>>
vars == <<envVars, autoVars, seqVars, auxVars>>

St == [autopresses |-> autopresses, intervals |-> intervals]

NoReturn ==
    [op |-> "none", threw |-> FALSE, message |-> "", found |-> FALSE, count |-> 0]

\* the windows of the desktop, each known by a number of its own
AllWindows == [i \in 1..NumWindows |-> i]

\* JAIL_WINDOW_TITLE not set
NoJail == [enforced |-> FALSE, jailedWindow |-> Absent]

\* `new GamepadIO()`: not initialized; the controller it creates is neutral.
\* `holding` are the buttons of the handleButton calls suspended at their hold,
\* `centering` the sticks of the handleStick calls suspended at theirs;
\* `importing` and `connecting` are the operations suspended in initialize(),
\* `clients` and `controllers` count the ViGEm clients and the controllers
\* created so far.
NewGamepad ==
    [initialized |-> FALSE, buttons |-> {}, holding |-> {}, centering |-> {},
     axes |-> [a \in Axes |-> 0],
     importing |-> {}, connecting |-> {}, clients |-> 0, controllers |-> 0]

\* createErrorResponse not called
NoErrorCall == [error |-> Absent, context |-> Absent, response |-> Absent]

\* a desktop with all its windows, the driver installed, no jail configured
InitHost ==
    /\ hasDriver = TRUE
    /\ windows = AllWindows
    /\ windowJail = NoJail
    /\ gamepad = NewGamepad
    /\ errorCall = NoErrorCall

\* the server as wired in logger.ts, on a host that is not Windows, before any
\* window was selected
InitEnv ==
    /\ instances = Registration("MouseIO")
    /\ selectedWindowId = Absent
    /\ isWindows = FALSE
    /\ InitHost

InitAutopress ==
    /\ autopresses = <<>>
    /\ commandExecutor = FALSE
    /\ intervals = {}
    /\ configOf = <<>>
    /\ nextHandle = 1
    /\ ticks = EmptyBag
    /\ starting = <<>>
    /\ returned = NoReturn
    /\ cleared = {}

\* a command of a sequence call
Cmd(tool, action, params, captureResult) ==
    [tool |-> tool, action |-> action, params |-> params,
     captureResult |-> captureResult]

NoCommand == Cmd("", <<>>, NoParams, FALSE)

\* no executeSequence call yet.  `length` is Absent when `commands` is not an
\* array, else Some(commands.length); the elements are drawn when the loop
\* reaches them.
NoSequence ==
    [pc |-> "idle", length |-> Absent, stopOnError |-> TRUE,
     captureIntermediate |-> FALSE, window |-> Absent,
     index |-> 0, command |-> NoCommand, results |-> <<>>, allContent |-> <<>>]

\* what the Router's handler gave back: a response (with the engine's summary
\* when it is a sequence's) or a thrown error
Routed(outcome, content, summary) ==
    [threw |-> outcome.threw, isError |-> outcome.isError,
     message |-> outcome.message, content |-> content, summary |-> summary,
     shown |-> outcome.shown, selectedWindow |-> outcome.selectedWindow,
     json |-> outcome.json, effects |-> outcome.effects, focused |-> outcome.focused]

\* nothing returned yet
NoRouted == Routed(Respond(<<>>), <<>>, Absent)

InitSequence ==
    /\ sequence = NoSequence
    /\ invoked = <<>>
    /\ routed = NoRouted

\* nothing resolved yet
NoResolved == [threw |-> FALSE, message |-> "", key |-> "", value |-> Absent]

\* the client has not called resolve or getAll yet
InitClient ==
    /\ resolved = NoResolved
    /\ snapshot = Absent
    /\ registered = [op |-> "none", key |-> "", instance |-> ""]

Init == InitEnv /\ InitAutopress /\ InitSequence /\ InitClient

----------------------------------------------------------------------------
(* Actions of the autopress service *)

\* the closures still referenced: those of live timers and of callbacks in
\* progress
Referenced(closures, live, running) ==
    [h \in {x \in DOMAIN closures : x \in live \/ \E t \in BagToSet(running) : t.timer = x}
        |-> closures[h]]

\* setCommandExecutor(executor)
SetCommandExecutor ==
    /\ commandExecutor' = TRUE
    /\ UNCHANGED <<envVars, auxVars, seqVars, autopresses, intervals, configOf,
                   nextHandle, ticks,
                   starting, returned, cleared>>

\* the tail of start(): create the state, store it, return
StartCreate(st, config) ==
    /\ autopresses' = createState(st, config, nextHandle).autopresses
    /\ intervals' = createState(st, config, nextHandle).intervals
    /\ configOf' = Set(configOf, nextHandle, config)
    /\ nextHandle' = nextHandle + 1
    /\ returned' = [NoReturn EXCEPT !.op = "start"]

\* start(config) up to its return or, when an entry with the id exists, up to
\* `await this.stop(config.id)`
StartStopsFirst(config) ==
    /\ nextHandle + Len(starting) <= MaxTimers
    /\ IF StartValidate(config) # ""
       THEN /\ returned' = [NoReturn EXCEPT !.op = "start", !.threw = TRUE,
                                            !.message = StartValidate(config)]
            /\ autopresses' = stopExisting(St, config).autopresses
            /\ intervals' = stopExisting(St, config).intervals
            /\ UNCHANGED <<configOf, nextHandle, starting, cleared>>
       ELSE IF config.id \in DOMAIN autopresses
       THEN /\ autopresses' = stopExisting(St, config).autopresses
            /\ intervals' = stopExisting(St, config).intervals
            /\ configOf' = Referenced(configOf, intervals', ticks)
            /\ cleared' = cleared \cup {autopresses[config.id].intervalId}
            /\ starting' = Append(starting, config)
            /\ UNCHANGED <<nextHandle, returned>>
       ELSE /\ StartCreate(stopExisting(St, config), config)
            /\ UNCHANGED <<starting, cleared>>
    /\ UNCHANGED <<envVars, auxVars, seqVars, commandExecutor, ticks>>

Start(config) ==
    /\ nextHandle + Len(starting) <= MaxTimers
    /\ IF StartValidate(config) # ""
       THEN /\ returned' = [NoReturn EXCEPT !.op = "start", !.threw = TRUE,
                                            !.message = StartValidate(config)]
            /\ UNCHANGED <<autopresses, intervals, configOf, nextHandle, starting,
                           cleared>>
       ELSE IF config.id \in DOMAIN autopresses
       THEN /\ autopresses' = stopExisting(St, config).autopresses
            /\ intervals' = stopExisting(St, config).intervals
            /\ configOf' = Referenced(configOf, intervals', ticks)
            /\ cleared' = cleared \cup {autopresses[config.id].intervalId}
            /\ starting' = Append(starting, config)
            /\ UNCHANGED <<nextHandle, returned>>
       ELSE /\ StartCreate(stopExisting(St, config), config)
            /\ UNCHANGED <<starting, cleared>>
    /\ UNCHANGED <<envVars, auxVars, seqVars, commandExecutor, ticks>>

\* start() resumed after `await this.stop(config.id)`
StartResume ==
    /\ starting # <<>>
    /\ StartCreate(St, Head(starting))
    /\ starting' = Tail(starting)
    /\ UNCHANGED <<envVars, auxVars, seqVars, commandExecutor, ticks, cleared>>

\* stop(id)
Stop(id) ==
    /\ autopresses' = stop(St, id).autopresses
    /\ intervals' = stop(St, id).intervals
    /\ returned' = [NoReturn EXCEPT !.op = "stop", !.found = stop(St, id).result]
    /\ configOf' = Referenced(configOf, intervals', ticks)
    /\ cleared' = IF id \in DOMAIN autopresses
                  THEN cleared \cup {autopresses[id].intervalId}
                  ELSE cleared
    /\ UNCHANGED <<envVars, auxVars, seqVars, commandExecutor, nextHandle, ticks, starting>>

\* stopAll()
StopAll ==
    /\ autopresses' = stopAll(St).autopresses
    /\ intervals' = stopAll(St).intervals
    /\ returned' = [NoReturn EXCEPT !.op = "stopAll", !.count = stopAll(St).result]
    /\ configOf' = Referenced(configOf, intervals', ticks)
    /\ cleared' = cleared \cup {autopresses[id].intervalId : id \in DOMAIN autopresses}
    /\ UNCHANGED <<envVars, auxVars, seqVars, commandExecutor, nextHandle, ticks, starting>>

\* the interval timer `handle` fires: its callback calls
\* executeSequence(config.commands), which invokes the first command.  Timers
\* are macrotasks: none fires while a resumption of start() is queued.
TickFire(handle) ==
    /\ handle \in intervals
    /\ starting = <<>>
    /\ BagCardinality(ticks) < MaxInFlight
    /\ commandExecutor
    /\ ticks' = ticks (+) SetToBag({[timer |-> handle, pos |-> 1]})
    /\ UNCHANGED <<envVars, auxVars, seqVars, autopresses, commandExecutor, intervals, configOf,
                   nextHandle, starting, returned, cleared>>

\* the command a callback awaits and what the executor makes of it
TickCommand(tick) == configOf[tick.timer].commands[tick.pos]
TickOutcome(tick) ==
    serverCommandExecutor(TickCommand(tick).ioClass, TickCommand(tick).action,
                          TickCommand(tick).params)
TickNext(tick) ==
    executeSequenceNext(configOf[tick.timer].commands, tick.pos, TickOutcome(tick))

\* the command awaited by one callback settles; the loop of executeSequence
\* invokes the next command or ends
TickStep(tick) ==
    /\ BagIn(tick, ticks)
    /\ ticks' = IF TickNext(tick) = 0
                THEN ticks (-) SetToBag({tick})
                ELSE (ticks (-) SetToBag({tick}))
                        (+) SetToBag({[tick EXCEPT !.pos = TickNext(tick)]})
    /\ configOf' = Referenced(configOf, intervals, ticks')
    /\ selectedWindowId' = executorSelection(TickCommand(tick).ioClass,
                                             TickCommand(tick).action,
                                             TickCommand(tick).params)
    /\ gamepad' = executorController(TickCommand(tick).ioClass,
                                     TickCommand(tick).action,
                                     TickCommand(tick).params)
    /\ UNCHANGED <<instances, hostVars, auxVars, seqVars, autopresses,
                   commandExecutor, intervals,
                   nextHandle, starting, returned, cleared>>

\* the positions a callback can be at
Ticks ==
    {[timer |-> h, pos |-> p] :
        h \in Handles, p \in UNION {DOMAIN config.commands : config \in Configs}}

\* a call of the service's API
Call ==
    \/ SetCommandExecutor
    \/ \E config \in Configs : Start(config)
    \/ \E id \in IdPool : Stop(id)
    \/ StopAll

\* Calls arrive at any time: a call may begin while a start() is suspended at
\* its await (two requests read from one chunk of input: the handler of the
\* second runs before the continuation of the first).  Interval callbacks
\* interleave with the calls and with each other.
Next ==
    \/ Call
    \/ StartResume
    \/ \E handle \in Handles : TickFire(handle)
    \/ \E tick \in Ticks : TickStep(tick)

Spec == Init /\ [][Next]_vars


----------------------------------------------------------------------------
(* Inputs of the Router *)

\* keyboard_press "a"; keyboard_press without keys; an operation KeyboardIO
\* does not declare; keyboard_press into a window that does not exist;
\* gamepad_button A; a tool nobody registered; mouse_move without coordinate;
\* a screenshot with the step's capture flag set
Commands ==
    { Cmd("keyboard", <<"keyboard", "press">>, Key("a"), FALSE),
      Cmd("keyboard", <<"keyboard", "press">>, NoParams, FALSE),
      Cmd("keyboard", <<"keyboard", "fly">>, Key("a"), FALSE),
      Cmd("keyboard", <<"keyboard", "press">>,
          [Key("a") EXCEPT !.window = Some(NumWindows)], FALSE),
      Cmd("gamepad", <<"gamepad", "button">>, Btn("A"), FALSE),
      Cmd("ghost", <<"ghost", "press">>, NoParams, FALSE),
      Cmd("mouse", <<"mouse", "move">>, NoParams, FALSE),
      Cmd("screenshot", <<"screenshot", "capture">>, NoParams, TRUE) }

\* the arguments of a sequence call
SequenceArgs ==
    [length : {Absent} \cup {Some(n) : n \in 0..MaxCommands},
     stopOnError : BOOLEAN, captureIntermediate : BOOLEAN,
     window : {Absent, Some(0)}]

----------------------------------------------------------------------------
(* Actions of the Router and the Sequence Engine *)

\* executeSequence returns {content: allContent}
SeqReturn(content, summary) ==
    /\ sequence' = [sequence EXCEPT !.pc = "returned", !.index = 0,
                                    !.command = NoCommand, !.results = <<>>,
                                    !.allContent = <<>>]
    /\ routed' = Routed(Respond(<<>>), content, Some(summary))

\* the end of one iteration: the next one, or what follows the loop
SeqAdvance(results, allContent) ==
    IF sequence.index < Get(sequence.length)
    THEN /\ sequence' = [sequence EXCEPT !.pc = "loop", !.index = sequence.index + 1,
                                         !.command = NoCommand, !.results = results,
                                         !.allContent = allContent]
         /\ UNCHANGED routed
    ELSE SeqReturn(allContent \o finalScreenshot(sequence.captureIntermediate, results)
                      \o <<Item("text", 0)>>,
                   executionSummary(Get(sequence.length), results))

\* the catch block of the iteration for `command`
SeqCatch(command, errorMessage) ==
    IF catchReturns(sequence.stopOnError)
    THEN SeqReturn(sequence.allContent \o <<Item("text", 0)>>,
                   errorSummary(Get(sequence.length),
                                pushFailure(sequence.results, command, errorMessage),
                                errorMessage))
    ELSE SeqAdvance(pushFailure(sequence.results, command, errorMessage),
                    sequence.allContent)

\* the Router's handler for 'sequence': executeSequence(toolArgs, container) up
\* to the first iteration of its loop
RouterSequence(args) ==
    /\ sequence.pc \in {"idle", "returned"}
    /\ invoked' = <<>>
    /\ IF args.length = Absent
       THEN /\ sequence' = [NoSequence EXCEPT !.pc = "returned",
                               !.stopOnError = args.stopOnError,
                               !.captureIntermediate = args.captureIntermediate,
                               !.window = args.window]
            /\ routed' = Routed(Throw("commands is not iterable"), <<>>, Absent)
       ELSE IF Get(args.length) = 0
       THEN /\ sequence' = [NoSequence EXCEPT !.pc = "returned", !.length = args.length,
                               !.stopOnError = args.stopOnError,
                               !.captureIntermediate = args.captureIntermediate,
                               !.window = args.window]
            /\ routed' = Routed(Respond(<<>>), <<Item("text", 0)>>,
                                Some(executionSummary(0, <<>>)))
       ELSE /\ sequence' = [NoSequence EXCEPT !.pc = "loop", !.length = args.length,
                               !.stopOnError = args.stopOnError,
                               !.captureIntermediate = args.captureIntermediate,
                               !.window = args.window, !.index = 1]
            /\ routed' = NoRouted
    /\ UNCHANGED <<envVars, auxVars, autoVars>>

\* one iteration for the next command of the list, up to
\* `await ioClass.handleAction(command.action, mergedParams)`
SeqInvokeDetached(command) ==
    /\ sequence.pc = "loop"
    /\ IF ~has(command.tool)
       THEN SeqCatch(command, "Unknown tool: " \o command.tool) /\ UNCHANGED invoked
       ELSE IF ~isIOClass(resolve(command.tool))
       THEN SeqCatch(command, command.tool \o " is not a valid IO class") /\ UNCHANGED invoked
       ELSE /\ SeqAdvance(sequence.results, sequence.allContent)
            /\ invoked' = Append(invoked,
                                 [index |-> sequence.index,
                                  tool |-> command.tool,
                                  action |-> command.action,
                                  window |-> mergedParams(sequence.window,
                                                          command.params).window])
    /\ UNCHANGED <<envVars, auxVars, autoVars>>

SeqInvoke(command) ==
    /\ sequence.pc = "loop"
    /\ IF ~has(command.tool)
       THEN SeqCatch(command, "Unknown tool: " \o command.tool) /\ UNCHANGED invoked
       ELSE IF ~isIOClass(resolve(command.tool))
       THEN SeqCatch(command, command.tool \o " is not a valid IO class") /\ UNCHANGED invoked
       ELSE /\ sequence' = [sequence EXCEPT !.pc = "await", !.command = command]
            /\ invoked' = Append(invoked,
                                 [index |-> sequence.index,
                                  tool |-> command.tool,
                                  action |-> command.action,
                                  window |-> mergedParams(sequence.window,
                                                          command.params).window])
            /\ UNCHANGED routed
    /\ UNCHANGED <<envVars, auxVars, autoVars>>

\* what the awaited handleAction call comes to
SeqOutcome ==
    HandleAction(resolve(sequence.command.tool), sequence.command.action,
                 mergedParams(sequence.window, sequence.command.params))

\* the awaited handleAction settles: the rest of the iteration
SeqSettle ==
    /\ sequence.pc = "await"
    /\ IF SeqOutcome.threw
       THEN SeqCatch(sequence.command, SeqOutcome.message)
       ELSE SeqAdvance(pushSuccess(sequence.results, sequence.command, SeqOutcome),
                       sequence.allContent
                          \o (IF sequence.captureIntermediate
                                   \/ sequence.command.captureResult
                              THEN ItemsOf(SeqOutcome.content, sequence.index)
                              ELSE <<>>))
    /\ selectedWindowId' = SelectedAfter(resolve(sequence.command.tool),
                                         sequence.command.action,
                                         mergedParams(sequence.window,
                                                      sequence.command.params))
    /\ gamepad' = ControllerAfter(resolve(sequence.command.tool),
                                  sequence.command.action,
                                  mergedParams(sequence.window,
                                               sequence.command.params))
    /\ UNCHANGED <<instances, hostVars, auxVars, autoVars, invoked>>

\* the Router's handler for a tool of an IO class
RouterTool(name, toolArgs) ==
    /\ sequence.pc \in {"idle", "returned"}
    /\ sequence' = NoSequence
    /\ routed' = Routed(RouteTool(name, toolArgs),
                        ItemsOf(RouteTool(name, toolArgs).content, 0), Absent)
    /\ invoked' = IF Len(name) >= 2 /\ has(Head(name)) /\ isIOClass(resolve(Head(name)))
                  THEN <<[index |-> 0, tool |-> Head(name), action |-> name,
                          window |-> toolArgs.window]>>
                  ELSE <<>>
    /\ selectedWindowId' = RouteSelection(name, toolArgs)
    /\ gamepad' = RouteController(name, toolArgs)
    /\ UNCHANGED <<instances, hostVars, auxVars, autoVars>>

\* the server with either MouseIO variant registered
SeqInit ==
    /\ instances \in {Registration("MouseIO"), Registration("MouseIOLegacy")}
    /\ selectedWindowId = Absent
    /\ isWindows \in BOOLEAN
    /\ InitHost
    /\ InitAutopress
    /\ InitSequence
    /\ InitClient

\* The client issues a call once the previous one has returned; a sequence
\* call proceeds one await at a time.
SeqNext ==
    \/ \E args \in SequenceArgs : RouterSequence(args)
    \/ \E command \in Commands : SeqInvoke(command)
    \/ SeqSettle
    \/ \E command \in Commands : RouterTool(command.action, command.params)
    \/ RouterTool(<<"ping">>, NoParams)

SeqSpec == SeqInit /\ [][SeqNext]_vars

----------------------------------------------------------------------------
(* The Shared Targeting Context: calls with explicit targets, select, and the
   sequences and autopresses that run beside them *)

\* target ids: -1, the ids of the windows, and the first id past them
TargetIds == (-1)..NumWindows

Sel(windowId) == [NoParams EXCEPT !.windowId = windowId]
Into(params, window) == [params EXCEPT !.window = window]

\* the explicit targets of a call: none, or any id
Explicit == {Absent} \cup {Some(t) : t \in TargetIds}

ToolCall(name, params) == [name |-> name, params |-> params]

\* the tool calls of a client: select (null, no windowId, any id), the window
\* queries, and each input or capture operation without and with an explicit
\* target
TargetCalls ==
    {ToolCall(<<"windows", "select">>, Sel(w)) : w \in {Null} \cup Explicit}
    \cup {ToolCall(<<"windows", "list">>, NoParams)}
    \cup {ToolCall(<<"windows", "focus">>, Sel(Some(t))) : t \in {0, NumWindows}}
    \cup {ToolCall(<<"keyboard", "press">>, Into(Key("a"), w)) : w \in Explicit}
    \cup {ToolCall(<<"keyboard", "press">>, Into(NoParams, Some(NumWindows)))}
    \cup {ToolCall(<<"mouse", "click">>, Into(NoParams, w)) : w \in Explicit}
    \cup {ToolCall(<<"gamepad", "button">>, Into(Btn("A"), w)) :
             w \in {Absent, Some(0), Some(NumWindows)}}
    \cup {ToolCall(<<"screenshot", "capture">>, Into(NoParams, w)) : w \in Explicit}

\* the steps of the sequences: a select, a key press into window 0, a tool
\* nobody registered
TargetCommands ==
    { Cmd("windows", <<"windows", "select">>, Sel(Some(1)), FALSE),
      Cmd("keyboard", <<"keyboard", "press">>, Into(Key("a"), Some(0)), FALSE),
      Cmd("ghost", <<"ghost", "press">>, NoParams, FALSE) }

\* sequences of one or two steps, without and with a shared target
TargetSequenceArgs ==
    {args \in SequenceArgs :
        args.length \in {Some(1), Some(2)} /\ ~args.captureIntermediate}

\* an autopress that selects window 0 and presses a key
TargetConfigs ==
    { Config(<<"x">>,
             << [ioClass |-> "windows", action |-> <<"select">>,
                 params |-> Sel(Some(0))],
                [ioClass |-> "keyboard", action |-> <<"press">>, params |-> Key("w")] >>,
             50) }

\* the server once autoSelectJailedWindow() has run at startup: no selection
\* (no jail configured, or its window not found) or the window it matched
TargetInit ==
    /\ instances \in {Registration("MouseIO"), Registration("MouseIOLegacy")}
    /\ selectedWindowId \in {Absent} \cup {Some(i) : i \in 0..(NumWindows - 1)}
    /\ isWindows \in BOOLEAN
    /\ InitHost
    /\ InitAutopress
    /\ InitSequence
    /\ InitClient

\* the autopress service as constructed: none of its methods called yet
ServiceIdle ==
    /\ autopresses = <<>>
    /\ ~commandExecutor
    /\ nextHandle = 1
    /\ returned = NoReturn

\* the Router before its first call
RouterIdle == sequence = NoSequence /\ routed = NoRouted

\* The Router and the autopress service share the container and the selection
\* only, and of the two only a handler they both reach (handleSelect) writes
\* the selection.  They are explored one at a time: a behaviour drives the
\* Router with the service idle, or the service with the Router idle, from
\* every initial selection; the states of the two do not multiply.
TargetNext ==
    \/ /\ ServiceIdle
       /\ \/ \E call \in TargetCalls : RouterTool(call.name, call.params)
          \/ \E args \in TargetSequenceArgs : RouterSequence(args)
          \/ \E command \in TargetCommands : SeqInvoke(command)
          \/ SeqSettle
    \/ /\ RouterIdle
       /\ \/ SetCommandExecutor
          \/ \E config \in TargetConfigs : Start(config)
          \/ \E id \in IdPool : Stop(id)
          \/ StopAll
          \/ StartResume
          \/ \E handle \in Handles : TickFire(handle)
          \/ \E tick \in Ticks : TickStep(tick)

TargetSpec == TargetInit /\ [][TargetNext]_vars

----------------------------------------------------------------------------
(* The DI container as an object (di-container.ts): register, resolve, has,
   getAll and clear, called in any order by a client that keeps, and may
   change, the Map getAll returned *)

\* the keys and the instances of the calls
RegistryKeys == {"keyboard", "mouse"}
RegistryInstances == {"KeyboardIO", "MouseIO", "MouseIOLegacy"}

\* Map.prototype.set / delete on a map held as a function
MapSet(map, key, value) ==
    [k \in DOMAIN map \cup {key} |-> IF k = key THEN value ELSE map[k]]
MapDelete(map, key) == [k \in DOMAIN map \ {key} |-> map[k]]

\* register(key, instance): this.instances.set(key, instance)
registerKeepsFirst(key, instance) ==
    IF key \in DOMAIN instances THEN instances ELSE MapSet(instances, key, instance)

register(key, instance) == MapSet(instances, key, instance)

\* resolve(key): the instance, or the error thrown when get(key) is undefined
resolveOrThrow(key) ==
    IF key \notin DOMAIN instances
    THEN [threw |-> TRUE, message |-> "No instance registered for key",
          key |-> key, value |-> Absent]
    ELSE [threw |-> FALSE, message |-> "", key |-> key, value |-> Some(instances[key])]

\* getAll(): `new Map(this.instances)`, a Map of its own.  A Map is held as
\* [live, map]: live when it is the container's own Map object, and map its
\* bindings when it is not.
getAllLive == [live |-> TRUE, map |-> <<>>]

getAll == [live |-> FALSE, map |-> instances]

\* the bindings of a Map the client holds
Bindings(held) == IF held.live THEN instances ELSE held.map

Register(key, instance) ==
    /\ instances' = register(key, instance)
    /\ registered' = [op |-> "register", key |-> key, instance |-> instance]
    /\ UNCHANGED <<selectedWindowId, hostVars, gamepad, errorCall, autoVars, seqVars, resolved, snapshot>>

Resolve(key) ==
    /\ resolved' = resolveOrThrow(key)
    /\ UNCHANGED <<envVars, errorCall, autoVars, seqVars, snapshot, registered>>

GetAll ==
    /\ snapshot' = Some(getAll)
    /\ UNCHANGED <<envVars, errorCall, autoVars, seqVars, resolved, registered>>

Clear ==
    /\ instances' = <<>>
    /\ registered' = [op |-> "clear", key |-> "", instance |-> ""]
    /\ UNCHANGED <<selectedWindowId, hostVars, gamepad, errorCall, autoVars, seqVars, resolved, snapshot>>

\* the client calls set(key, instance) on the Map it holds
SnapshotSet(key, instance) ==
    /\ snapshot # Absent
    /\ IF Get(snapshot).live
       THEN /\ instances' = MapSet(instances, key, instance)
            /\ UNCHANGED snapshot
       ELSE /\ snapshot' = Some([Get(snapshot) EXCEPT
                                    !.map = MapSet(Get(snapshot).map, key, instance)])
            /\ UNCHANGED instances
    /\ UNCHANGED <<selectedWindowId, hostVars, gamepad, errorCall, autoVars, seqVars, resolved, registered>>

\* the client calls delete(key) on the Map it holds
SnapshotDelete(key) ==
    /\ snapshot # Absent
    /\ IF Get(snapshot).live
       THEN /\ instances' = MapDelete(instances, key)
            /\ UNCHANGED snapshot
       ELSE /\ snapshot' = Some([Get(snapshot) EXCEPT
                                    !.map = MapDelete(Get(snapshot).map, key)])
            /\ UNCHANGED instances
    /\ UNCHANGED <<selectedWindowId, hostVars, gamepad, errorCall, autoVars, seqVars, resolved, registered>>

\* `new DIContainer()`: no instance registered
RegistryInit ==
    /\ instances = <<>>
    /\ selectedWindowId = Absent
    /\ isWindows = FALSE
    /\ InitHost
    /\ InitAutopress
    /\ InitSequence
    /\ InitClient

RegistryNext ==
    \/ \E key \in RegistryKeys, instance \in RegistryInstances : Register(key, instance)
    \/ \E key \in RegistryKeys : Resolve(key)
    \/ GetAll
    \/ Clear
    \/ \E key \in RegistryKeys, instance \in RegistryInstances : SnapshotSet(key, instance)
    \/ \E key \in RegistryKeys : SnapshotDelete(key)

RegistrySpec == RegistryInit /\ [][RegistryNext]_vars

----------------------------------------------------------------------------
(* The IO classes on a live desktop: the tool calls of every capability, with
   and without a window jail, while windows close *)

At(x, y) == [NoParams EXCEPT !.coordinate = Some(<<x, y>>)]
Trigger(trigger, pressure, hold) ==
    [NoParams EXCEPT !.trigger = Some(trigger), !.pressure = Some(pressure),
                     !.hold = hold]
Stick(stick, x, y, hold) ==
    [NoParams EXCEPT !.stick = Some(stick), !.x = Some(x), !.y = Some(y),
                     !.hold = hold]
Dpad(direction) == [NoParams EXCEPT !.direction = Some(direction)]

\* the explicit targets of the calls: none, the first window, the first id
\* past the windows there were at startup
DeviceTargets == {Absent, Some(0), Some(NumWindows)}

\* the operations each capability declares, with and without what they
\* require
DeclaredCalls ==
    {ToolCall(<<"keyboard", "press">>, Into(Key("a"), w)) : w \in DeviceTargets}
    \cup {ToolCall(<<"keyboard", "press">>, NoParams)}
    \cup {ToolCall(<<"mouse", "move">>, Into(At(10, 20), w)) : w \in {Absent, Some(0)}}
    \cup {ToolCall(<<"mouse", "move">>, Into(NoParams, w)) : w \in DeviceTargets}
    \cup {ToolCall(<<"mouse", "click">>, NoParams)}
    \cup {ToolCall(<<"gamepad", "button">>, Btn("A"))}
    \cup {ToolCall(<<"screenshot", "capture">>, Into(NoParams, w)) :
             w \in {Absent, Some(0)}}
    \cup {ToolCall(<<"windows", "select">>, Sel(w)) : w \in {Null, Some(0)}}

\* the capabilities of the server
Capabilities == {"keyboard", "mouse", "gamepad", "screenshot", "windows"}

\* for each capability an operation it does not declare, without parameters
\* and into a window that is not there
UndeclaredCalls ==
    {ToolCall(<<c, "fly">>, p) :
        c \in Capabilities, p \in {NoParams, Into(NoParams, Some(NumWindows))}}

DeviceCalls == DeclaredCalls \cup UndeclaredCalls

\* the window jail once the server has started: not configured; enforced with
\* its window not found; enforced with its window found and selected
JailNotFound == [enforced |-> TRUE, jailedWindow |-> Absent]
JailOf(window) == [enforced |-> TRUE, jailedWindow |-> Some(window)]

DeviceInit ==
    /\ instances \in {Registration("MouseIO"), Registration("MouseIOLegacy")}
    /\ windows = AllWindows
    /\ \/ windowJail \in {NoJail, JailNotFound} /\ selectedWindowId = Absent
       \/ \E i \in 0..(NumWindows - 1) :
             windowJail = JailOf(windows[i + 1]) /\ selectedWindowId = Some(i)
    /\ isWindows \in BOOLEAN
    /\ hasDriver = isWindows
    /\ gamepad = NewGamepad
    /\ errorCall = NoErrorCall
    /\ InitAutopress
    /\ InitSequence
    /\ InitClient

\* the user closes a window: getWindows() no longer lists it, and the windows
\* behind it move up by one
CloseWindow(i) ==
    /\ i \in 1..Len(windows)
    /\ windows' = SubSeq(windows, 1, i - 1) \o SubSeq(windows, i + 1, Len(windows))
    /\ UNCHANGED <<instances, selectedWindowId, isWindows, hasDriver, windowJail,
                   gamepad, autoVars, seqVars, auxVars>>

DeviceNext ==
    \/ \E call \in DeviceCalls : RouterTool(call.name, call.params)
    \/ \E i \in 1..NumWindows : CloseWindow(i)

DeviceSpec == DeviceInit /\ [][DeviceNext]_vars

----------------------------------------------------------------------------
(* The controller capability: the gamepad calls on hosts with and without the
   backend, while the driver gets installed and overlapping button calls hold
   their button *)

\* every operation of the controller, with values that stay (a trigger held
\* for 0 ms, a stick without a hold) and values that are put back, a pressure
\* out of range, and an operation it does not declare
GamepadCalls ==
    {ToolCall(<<"gamepad", "button">>, Btn("A")),
     ToolCall(<<"gamepad", "button">>, Btn("B")),
     ToolCall(<<"gamepad", "stick">>, Stick("left", 32768, 0, Absent)),
     ToolCall(<<"gamepad", "stick">>, Stick("right", 0, -32769, Absent)),
     ToolCall(<<"gamepad", "trigger">>, Trigger("LT", 255, Some(0))),
     ToolCall(<<"gamepad", "trigger">>, Trigger("RT", 128, Absent)),
     ToolCall(<<"gamepad", "trigger">>, Trigger("LT", 256, Some(0))),
     ToolCall(<<"gamepad", "stick">>, Stick("left", 32767, -32768, Absent)),
     ToolCall(<<"gamepad", "stick">>, Stick("right", 100, 100, Some(50))),
     ToolCall(<<"gamepad", "dpad">>, Dpad("up")),
     ToolCall(<<"gamepad", "reset">>, NoParams),
     ToolCall(<<"gamepad", "fly">>, NoParams)}

\* a host that is not Windows, Windows without the driver, Windows with it
GamepadInit ==
    /\ instances = Registration("MouseIO")
    /\ selectedWindowId = Absent
    /\ windows = AllWindows
    /\ windowJail = NoJail
    /\ isWindows \in BOOLEAN
    /\ hasDriver \in BOOLEAN
    /\ isWindows \/ ~hasDriver
    /\ gamepad = NewGamepad
    /\ errorCall = NoErrorCall
    /\ InitAutopress
    /\ InitSequence
    /\ InitClient

\* the user installs the ViGEm driver and the vigemclient module
InstallDriver ==
    /\ isWindows
    /\ ~hasDriver
    /\ hasDriver' = TRUE
    /\ UNCHANGED <<instances, selectedWindowId, isWindows, windows, windowJail,
                   gamepad, autoVars, seqVars, auxVars>>

\* gamepad_button with a hold, up to `await setTimeout(hold)`: the call is
\* suspended with the button down, and the Router takes other calls
ButtonHold(button) ==
    /\ validateJailEnforcement = ""
    /\ GamepadInitialize = ""
    /\ button \notin gamepad.holding
    /\ gamepad' = [gamepad EXCEPT !.initialized = GamepadInitialized,
                                  !.clients = Created(@),
                                  !.controllers = Created(@),
                                  !.buttons = @ \cup {button},
                                  !.holding = @ \cup {button}]
    /\ UNCHANGED <<instances, selectedWindowId, hostVars, autoVars, seqVars, auxVars>>

\* the hold is over: the button is released and the call returns
ButtonRelease(button) ==
    /\ button \in gamepad.holding
    /\ gamepad' = [gamepad EXCEPT !.buttons = @ \ {button},
                                  !.holding = @ \ {button}]
    /\ sequence' = NoSequence
    /\ invoked' = <<[index |-> 0, tool |-> "gamepad",
                     action |-> <<"gamepad", "button">>, window |-> Absent]>>
    /\ routed' = Routed(AutoScreenshot(<<"button">>),
                        ItemsOf(AutoScreenshot(<<"button">>).content, 0), Absent)
    /\ UNCHANGED <<instances, selectedWindowId, hostVars, autoVars, auxVars>>

\* gamepad_stick with a hold, up to `await setTimeout(hold)`: the call is
\* suspended with the stick off centre
StickHold(stick) ==
    /\ validateJailEnforcement = ""
    /\ GamepadInitialize = ""
    /\ stick \notin gamepad.centering
    /\ gamepad' = [gamepad EXCEPT
                      !.initialized = GamepadInitialized,
                      !.clients = Created(@),
                      !.controllers = Created(@),
                      !.axes = [@ EXCEPT ![stick \o "X"] = 200, ![stick \o "Y"] = -200],
                      !.centering = @ \cup {stick}]
    /\ UNCHANGED <<instances, selectedWindowId, hostVars, autoVars, seqVars, auxVars>>

\* the hold is over: the stick is put back to the centre and the call returns
StickRelease(stick) ==
    /\ stick \in gamepad.centering
    /\ gamepad' = [gamepad EXCEPT
                      !.axes = [@ EXCEPT ![stick \o "X"] = 0, ![stick \o "Y"] = 0],
                      !.centering = @ \ {stick}]
    /\ sequence' = NoSequence
    /\ invoked' = <<[index |-> 0, tool |-> "gamepad",
                     action |-> <<"gamepad", "stick">>, window |-> Absent]>>
    /\ routed' = Routed(AutoScreenshot(<<"stick">>),
                        ItemsOf(AutoScreenshot(<<"stick">>).content, 0), Absent)
    /\ UNCHANGED <<instances, selectedWindowId, hostVars, autoVars, auxVars>>

GamepadNext ==
    \/ \E call \in GamepadCalls : RouterTool(call.name, call.params)
    \/ InstallDriver
    \/ \E button \in {"B", "X"} : ButtonHold(button)
    \/ \E button \in {"B", "X"} : ButtonRelease(button)
    \/ StickHold("left")
    \/ StickRelease("left")

GamepadSpec == GamepadInit /\ [][GamepadNext]_vars

----------------------------------------------------------------------------
(* initialize() of GamepadIO one await at a time: the operations that are in
   it together, a call of the Router and a tick of an autopress entry, both
   gamepad_reset *)

Operations == {"router", "tick"}

\* handleAction up to `await import('vigemclient')`: the jail lets the call
\* through, `this.initialized` is read as false and the host is Windows
InitializeBegin(operation) ==
    /\ operation \notin gamepad.importing \cup gamepad.connecting
    /\ validateJailEnforcement = ""
    /\ ~gamepad.initialized
    /\ isWindows
    /\ gamepad' = [gamepad EXCEPT !.importing = @ \cup {operation}]
    /\ UNCHANGED <<instances, selectedWindowId, hostVars, autoVars, seqVars, auxVars>>

\* what the Router's caller gets from the operation; a tick's result is
\* dropped by the autopress executor
InitializeReturns(operation, outcome) ==
    IF operation = "router"
    THEN /\ sequence' = NoSequence
         /\ invoked' = <<[index |-> 0, tool |-> "gamepad",
                          action |-> <<"gamepad", "reset">>, window |-> Absent]>>
         /\ routed' = Routed(outcome, ItemsOf(outcome.content, 0), Absent)
    ELSE UNCHANGED seqVars

\* the import settles: without the module initialize() throws and the call
\* returns the error response; with it the client and the controller are
\* created, up to `await this.controller.connect()`
InitializeImport(operation) ==
    /\ operation \in gamepad.importing
    /\ IF ~hasDriver
       THEN /\ gamepad' = [gamepad EXCEPT !.importing = @ \ {operation}]
            /\ InitializeReturns(operation,
                    Caught(Throw("Failed to initialize gamepad: Cannot find module "
                                    \o "'vigemclient'. Make sure ViGEm driver is "
                                    \o "installed: "
                                    \o "https://github.com/nefarius/ViGEmBus/releases"),
                           "GamepadIO", <<"gamepad", "reset">>))
       ELSE /\ gamepad' = [gamepad EXCEPT !.importing = @ \ {operation},
                                          !.connecting = @ \cup {operation},
                                          !.clients = @ + 1,
                                          !.controllers = @ + 1]
            /\ UNCHANGED seqVars
    /\ UNCHANGED <<instances, selectedWindowId, hostVars, autoVars, auxVars>>

\* the controller is connected: `this.initialized = true`, and the rest of
\* handleAction, which is handleReset
InitializeConnect(operation) ==
    /\ operation \in gamepad.connecting
    /\ gamepad' = [gamepad EXCEPT !.connecting = @ \ {operation},
                                  !.initialized = TRUE,
                                  !.buttons = {},
                                  !.axes = handleResetAxes]
    /\ InitializeReturns(operation, handleReset)
    /\ UNCHANGED <<instances, selectedWindowId, hostVars, autoVars, auxVars>>

InitializeNext ==
    \/ \E operation \in Operations : InitializeBegin(operation)
    \/ \E operation \in Operations : InitializeImport(operation)
    \/ \E operation \in Operations : InitializeConnect(operation)
    \/ InstallDriver
    \/ \E call \in GamepadCalls : RouterTool(call.name, call.params)

InitializeSpec == GamepadInit /\ [][InitializeNext]_vars

----------------------------------------------------------------------------
(* createErrorResponse as a function (error-response.ts): called with any
   thrown value and with or without a context *)

ErrorNames == {"Error", "TypeError", "RangeError"}
ErrorMessages == {"", "boom", "coordinate is required for mouse_move"}
Numbers == {-12, 0, 7, 305}

\* Error objects of several classes, with and without a stack, and values
\* that are not Errors: strings, numbers, booleans, null, undefined, an object
ErrorValues ==
    {Value("Error", n, m, st, "", 0) :
        n \in ErrorNames, m \in ErrorMessages, st \in {Absent, Some("at")}}
    \cup {Value("string", "", "", Absent, str, 0) : str \in {"", "boom"}}
    \cup {Value("number", "", "", Absent, "", num) : num \in Numbers}
    \cup {Value("boolean", "", "", Absent, "", num) : num \in {0, 1}}
    \cup {Value(kind, "", "", Absent, "", 0) : kind \in {"null", "undefined", "object"}}

\* the context argument: not given, empty, or the place of a catch
Contexts ==
    {Absent, Some(""), Some("KeyboardIO.keyboard_press"), Some("MouseIO.mouse_move")}

ErrorInit ==
    /\ InitEnv
    /\ InitAutopress
    /\ InitSequence
    /\ InitClient

\* createErrorResponse(error, context) is called and returns
CreateErrorResponse(error, context) ==
    /\ errorCall' = [error |-> Some(error), context |-> context,
                     response |-> Some(createErrorResponse(error, context))]
    /\ UNCHANGED <<envVars, autoVars, seqVars, regVars>>

ErrorNext ==
    \E error \in ErrorValues, context \in Contexts : CreateErrorResponse(error, context)

ErrorSpec == ErrorInit /\ [][ErrorNext]_vars

----------------------------------------------------------------------------
(* Claims about the autopress service *)

\* the live timers whose callback runs the commands of `id`
TimersOf(id) == {h \in intervals : configOf[h].id = id}

\* the step invokes a further command of the callback `tick`
InvokesNext(tick) == TickStep(tick) /\ TickNext(tick) # 0

\* C3 as stated: once stop(id) has returned true (or stopAll has returned),
\* no command of the removed entry is invoked any more, not even by a
\* callback that was in progress when stop was called.
C3_NoCommandAfterStop ==
    [][\A tick \in Ticks :
          (/\ InvokesNext(tick)
           /\ \/ returned.op = "stop" /\ returned.found
              \/ returned.op = "stopAll")
          => tick.timer \notin cleared]_vars

\* C3 amended: once stop(id) has returned true (or stopAll has returned), no
\* interval callback of the removed entry starts any more, under every
\* interleaving of callbacks with the call; a callback in progress may still
\* run its remaining commands.
C3_NoTickStartsAfterStop ==
    [][\A h \in Handles : TickFire(h) => h \notin cleared]_vars

\* stop returned true while a callback of the removed entry was in progress
C3_Witness ==
    /\ returned.op = "stop"
    /\ returned.found
    /\ \E tick \in BagToSet(ticks) : tick.timer \in cleared

\* C4 as stated: once an entry is active again after a replacing start, every
\* command invoked for its id belongs to the active entry's command list.
C4_OnlyNewCommands ==
    [][\A tick \in Ticks :
          (/\ InvokesNext(tick)
           /\ starting = <<>>
           /\ configOf[tick.timer].id \in DOMAIN autopresses)
          => configOf[tick.timer].commands
                = autopresses[configOf[tick.timer].id].config.commands]_vars

\* C4 amended: a start for an id that is active cancels the old entry's timer,
\* which never fires again; when start returns, the one entry of the id is
\* the config just given (start("x", cmdsB, 30) after start("x", cmdsA, 50):
\* cmdsB at 30 ms) and its live timer runs that config's commands.  A callback
\* of the replaced entry that was in progress may still run its remaining
\* commands.
C4_ReplaceSemantics ==
    /\ [][\A config \in Configs :
            (Start(config) /\ StartValidate(config) = ""
                /\ config.id \in DOMAIN autopresses) =>
               /\ autopresses[config.id].intervalId \notin intervals'
               /\ autopresses[config.id].intervalId \in cleared']_vars
    /\ [][nextHandle' # nextHandle =>
            LET config == configOf'[nextHandle]
            IN  /\ autopresses'[config.id]
                     = [config |-> config, intervalId |-> nextHandle, isRunning |-> TRUE]
                /\ nextHandle \in intervals']_vars
    /\ [](\A id \in DOMAIN autopresses :
            /\ autopresses[id].intervalId \in intervals
            /\ configOf[autopresses[id].intervalId] = autopresses[id].config)
    /\ [][\A h \in Handles : TickFire(h) /\ h \in cleared => FALSE]_vars

\* "x" was replaced by cmdsB at 30 ms while a callback running cmdsA was in
\* progress
C4_Witness ==
    /\ returned.op = "start"
    /\ ~returned.threw
    /\ <<"x">> \in DOMAIN autopresses
    /\ autopresses[<<"x">>].config = Config(<<"x">>, cmdsB, 30)
    /\ \E tick \in BagToSet(ticks) :
          /\ tick.timer \in cleared
          /\ configOf[tick.timer] = Config(<<"x">>, cmdsA, 50)

\* C5: in every reachable state there is at most one live entry and one live
\* timer per id, and every live entry has interval >= 10 ms and a non-empty
\* command list.
C5_EntryInvariants ==
    /\ \A id \in DOMAIN autopresses :
          /\ autopresses[id].config.id = id
          /\ autopresses[id].config.interval >= 10
          /\ Len(autopresses[id].config.commands) > 0
          /\ autopresses[id].intervalId \in intervals
    /\ \A h \in intervals :
          /\ configOf[h].interval >= 10
          /\ Len(configOf[h].commands) > 0
          /\ TimersOf(configOf[h].id) = {h}

\* the executor threw, or the handler returned an error response
CommandFails(outcome) == outcome.threw \/ outcome.isError

\* C6: a failing command inside an interval callback never ends the
\* repetition: the callback goes on with its next command, and the entry and
\* its timer stay as they are.
C6_FailureKeepsRepeating ==
    [][\A tick \in Ticks :
          (TickStep(tick) /\ CommandFails(TickOutcome(tick))) =>
             /\ autopresses' = autopresses
             /\ intervals' = intervals
             /\ tick.pos < Len(configOf[tick.timer].commands)
                  => BagIn([tick EXCEPT !.pos = tick.pos + 1], ticks')]_vars

\* a callback of a live entry went on after a command whose executor threw
C6_Witness ==
    \E tick \in BagToSet(ticks) :
       /\ tick.pos > 1
       /\ TickOutcome([tick EXCEPT !.pos = tick.pos - 1]).threw
       /\ tick.timer \in intervals
       /\ configOf[tick.timer].id \in DOMAIN autopresses

\* C7: stopAll() returns the number of entries that were active immediately
\* before the call; afterwards no id is active, and the timer of none of those
\* entries is live or fires again.
C7_StopAll ==
    /\ [][StopAll =>
            /\ returned'.count = Cardinality(DOMAIN autopresses)
            /\ DOMAIN autopresses' = {}
            /\ \A id \in DOMAIN autopresses :
                  /\ autopresses[id].intervalId \notin intervals'
                  /\ autopresses[id].intervalId \in cleared']_vars
    /\ [](returned.op = "stopAll" => DOMAIN autopresses = {})
    /\ [](cleared \cap intervals = {})

\* stopAll stopped two entries
C7_Witness == returned.op = "stopAll" /\ returned.count = 2

\* C8: stop(id) returns true iff an entry with that id was active, never
\* fails, and leaves every other entry, its timer and the callbacks in
\* progress as they were.
C8_StopTouchesOnlyId ==
    [][\A id \in IdPool :
          Stop(id) =>
             /\ returned'.found = (id \in DOMAIN autopresses)
             /\ ~returned'.threw
             /\ ticks' = ticks
             /\ \A other \in DOMAIN autopresses \ {id} :
                   /\ other \in DOMAIN autopresses'
                   /\ autopresses'[other] = autopresses[other]
                   /\ autopresses[other].intervalId \in intervals'
                   /\ configOf'[autopresses[other].intervalId]
                        = configOf[autopresses[other].intervalId]]_vars

\* stop returned true and another entry is still active with its timer
C8_Witness ==
    /\ returned.op = "stop"
    /\ returned.found
    /\ \E other \in DOMAIN autopresses : autopresses[other].intervalId \in intervals

\* an id that is empty or consists of blanks
Blank(id) == \A i \in 1..Len(id) : id[i] = " "

\* the inputs the claim names as invalid
InvalidConfig(config) ==
    Blank(config.id) \/ Len(config.commands) = 0 \/ config.interval < 10

\* start(config) throws in this step
StartFails(config) ==
    /\ Start(config)
    /\ returned'.op = "start"
    /\ returned'.threw
    /\ nextHandle' = nextHandle
    /\ starting' = starting

\* start(config) goes on to create the entry, in this step or when resumed
StartCreates(config) ==
    /\ Start(config)
    /\ \/ /\ nextHandle' = nextHandle + 1
          /\ autopresses'[config.id].config = config
          /\ autopresses'[config.id].intervalId \in intervals'
       \/ starting' = Append(starting, config)

\* C9 as stated: start fails exactly when the id is empty or blank, the
\* commands are empty or the interval is below 10 ms.
C9_FailsExactlyOnInvalidConfig ==
    [][\A config \in Configs :
          Start(config) => (StartFails(config) <=> InvalidConfig(config))]_vars

\* C9 amended: start fails, creating no entry and no timer, exactly when the
\* id is empty or blank, the commands are empty, the interval is below 10 ms,
\* or no command executor has been set; for every other input it creates the
\* entry.
C9_FailsExactlyOnInvalidConfigOrNoExecutor ==
    /\ [][\A config \in Configs :
            Start(config) =>
               /\ StartFails(config) <=> (InvalidConfig(config) \/ ~commandExecutor)
               /\ StartFails(config) =>
                    /\ autopresses' = autopresses
                    /\ intervals' = intervals
                    /\ starting' = starting
               /\ ~StartFails(config) => StartCreates(config)]_vars
    /\ [][StartResume =>
            /\ autopresses'[Head(starting).id].config = Head(starting)
            /\ autopresses'[Head(starting).id].intervalId \in intervals']_vars

\* with the executor set and an entry active, a start with an interval below
\* 10 ms has failed
C9_Witness ==
    /\ commandExecutor
    /\ returned.op = "start"
    /\ returned.threw
    /\ returned.message = "Interval must be at least 10ms"
    /\ DOMAIN autopresses # {}


----------------------------------------------------------------------------
(* Claims about the Sequence Engine and the Router *)

\* the outcomes the sequence call has recorded: its `results` while it runs,
\* the summary's once it has returned
Recorded ==
    IF sequence.pc # "returned" THEN summaryResults(sequence.results)
    ELSE IF routed.summary = Absent THEN <<>>
    ELSE Get(routed.summary).results

\* the step failed: the engine recorded a failure, or the step's handler
\* answered with an error response
StepFailed(result) == ~result.success \/ result.isError

\* C1: with stopOnError = true, once a step fails no later command is
\* invoked, and a sequence that returns after a recorded failure reports
\* status "error" and executed = the number of steps up to and including the
\* failed one (2 for [ok, fail, ok]).
C1_ShortCircuit ==
    /\ [][\A command \in Commands :
            (SeqInvoke(command) /\ sequence.stopOnError) =>
               \A i \in DOMAIN sequence.results : ~StepFailed(sequence.results[i])]_vars
    /\ []((sequence.pc = "returned" /\ sequence.stopOnError
              /\ routed.summary # Absent /\ Get(routed.summary).failed > 0) =>
             /\ Get(routed.summary).status = "error"
             /\ Get(routed.summary).executed = Some(Len(Get(routed.summary).results)))

\* with stopOnError = true the handler of a third command is awaited although
\* the handler of the second answered with an error response
C1_Witness ==
    /\ sequence.pc = "await"
    /\ sequence.stopOnError
    /\ sequence.index = 3
    /\ ~StepFailed(sequence.results[1])
    /\ sequence.results[2].isError

\* C2: a step whose capability handler fails (it throws or answers with an
\* error response) is recorded as a failed step with its error message, and
\* with stopOnError = true it ends the sequence with status "error".
C2_HandlerFailureIsFailedStep ==
    [][(SeqSettle /\ CommandFails(SeqOutcome)) =>
          /\ Len(Recorded') = sequence.index
          /\ ~Recorded'[sequence.index].success
          /\ Recorded'[sequence.index].error = SeqOutcome.message
          /\ sequence.stopOnError =>
                /\ sequence'.pc = "returned"
                /\ Get(routed'.summary).status = "error"]_vars

\* a sequence run with stopOnError = true went past a step naming an
\* operation KeyboardIO does not declare and reports success
C2_Witness ==
    /\ sequence.pc = "returned"
    /\ sequence.stopOnError
    /\ routed.summary # Absent
    /\ Get(routed.summary).status = "success"
    /\ Len(invoked) = 2
    /\ invoked[1].action = <<"keyboard", "fly">>

\* C10: the Router's handler (sequence calls included) never throws: whatever
\* the tool name and the arguments, the caller gets a result object.
C10_NeverThrows == ~routed.threw

\* the Router's handler threw for a tool name without an underscore
C10_Witness == routed.threw /\ routed.message = "Invalid tool name"

\* this step is the one in which executeSequence returns from its loop or
\* after it
SeqReturns == sequence.pc \in {"loop", "await"} /\ sequence'.pc = "returned"

\* the command of the current iteration failed: the engine could not resolve
\* it, or its handler threw or answered with an error response
LastFailed == IF sequence.pc = "await" THEN CommandFails(SeqOutcome) ELSE TRUE

\* the number of failed steps of the sequence call that returns in this step
FailedSteps ==
    Cardinality({i \in DOMAIN sequence.results : StepFailed(sequence.results[i])})
        + (IF LastFailed THEN 1 ELSE 0)

\* the summary with which the call returns in this step
ReturnedSummary == Get(routed'.summary)

\* C11: with stopOnError = false every command of the list is gone through
\* whatever failed before, and the record counts the failed steps: for
\* [ok, fail, ok] three steps, failed = 1, status "partial".
C11_ContinueOnError ==
    [][(SeqReturns /\ ~sequence.stopOnError) =>
          /\ Len(ReturnedSummary.results) = Get(sequence.length)
          /\ ReturnedSummary.failed = FailedSteps
          /\ FailedSteps > 0 => ReturnedSummary.status = "partial"]_vars

\* run with stopOnError = false, [keyboard_press, an operation KeyboardIO does
\* not declare, keyboard_press] is reported as a success without failures
C11_Witness ==
    /\ sequence.pc = "returned"
    /\ ~sequence.stopOnError
    /\ Len(invoked) = 3
    /\ invoked[2].action = <<"keyboard", "fly">>
    /\ invoked[3].action = <<"keyboard", "press">>
    /\ Get(routed.summary).status = "success"
    /\ Get(routed.summary).failed = 0

\* C12 as stated: n steps that all succeed, run with stopOnError = true, give
\* a record with executed = n, failed = 0 and status "success".
C12_AllSucceedExecuted ==
    [][(SeqReturns /\ sequence.stopOnError /\ FailedSteps = 0) =>
          /\ ReturnedSummary.executed = sequence.length
          /\ ReturnedSummary.failed = 0
          /\ ReturnedSummary.status = "success"]_vars

\* C12 amended: n steps that all succeed, run with stopOnError = true, give a
\* record with total = n, successful = n, failed = 0, status "success" and n
\* per-step entries, each a success; the record of a sequence that ran to its
\* end has no `executed` field.
C12_AllSucceedTotal ==
    [][(SeqReturns /\ sequence.stopOnError /\ FailedSteps = 0) =>
          /\ ReturnedSummary.total = Get(sequence.length)
          /\ ReturnedSummary.successful = Get(sequence.length)
          /\ ReturnedSummary.failed = 0
          /\ ReturnedSummary.status = "success"
          /\ ReturnedSummary.executed = Absent
          /\ Len(ReturnedSummary.results) = Get(sequence.length)
          /\ \A i \in DOMAIN ReturnedSummary.results :
                ReturnedSummary.results[i].success]_vars

\* three screen captures, run with stopOnError = true, have all succeeded
C12_Witness ==
    /\ sequence.pc = "returned"
    /\ sequence.stopOnError
    /\ Len(invoked) = 3
    /\ \A i \in 1..3 : invoked[i].tool = "screenshot"
    /\ Get(routed.summary).successful = 3

\* C13: the status of the record is "success" iff no step failed, "partial"
\* only when stopOnError is false and a step failed, and "error" when
\* stopOnError is true and a step failed.
C13_StatusLaw ==
    [][SeqReturns =>
          /\ ReturnedSummary.status = "success" <=> FailedSteps = 0
          /\ ReturnedSummary.status = "partial"
                => (~sequence.stopOnError /\ FailedSteps > 0)
          /\ (sequence.stopOnError /\ FailedSteps > 0)
                => ReturnedSummary.status = "error"]_vars

\* a sequence run with stopOnError = true, whose only step pressed a gamepad
\* button on a host without gamepad emulation, is reported as a success
C13_Witness ==
    /\ sequence.pc = "returned"
    /\ sequence.stopOnError
    /\ sequence.length = Some(1)
    /\ Len(invoked) = 1
    /\ invoked[1].tool = "gamepad"
    /\ ~isWindows
    /\ Get(routed.summary).status = "success"

\* the target the handler of the awaited step is to get: the step's own, else
\* the shared one
ExpectedTarget ==
    IF sequence.command.params.window # Absent
    THEN sequence.command.params.window
    ELSE sequence.window

\* C14: the shared target is put into a step's parameters iff a shared target
\* was given and the step names no target of its own; a step's own target
\* reaches the handler unchanged and its other parameters are never altered.
C14_SharedTargetMerge ==
    sequence.pc = "await" =>
       LET params == sequence.command.params
           merged == mergedParams(sequence.window, params)
       IN  /\ merged.window = ExpectedTarget
           /\ merged.window # params.window
                 <=> (sequence.window # Absent /\ params.window = Absent)
           /\ \A field \in DOMAIN params \ {"window"} : merged[field] = params[field]
           /\ SeqOutcome
                 = HandleAction(resolve(sequence.command.tool), sequence.command.action,
                                [params EXCEPT !.window = ExpectedTarget])

\* a step with its own target is awaited in a sequence with another shared
\* target
C14_Witness ==
    /\ sequence.pc = "await"
    /\ sequence.window = Some(0)
    /\ sequence.command.params.window = Some(NumWindows)

\* the command of the current iteration was recorded as a failure
LastThrew == IF sequence.pc = "await" THEN SeqOutcome.threw ELSE TRUE

\* executeSequence returns in this step from behind its loop
CompletesLoop == SeqReturns /\ ~(LastThrew /\ sequence.stopOnError)

\* the last step that succeeded, 0 when none did
LastSuccessful ==
    IF ~LastFailed THEN sequence.index
    ELSE IF \E i \in DOMAIN sequence.results : ~StepFailed(sequence.results[i])
    THEN CHOOSE i \in DOMAIN sequence.results :
            /\ ~StepFailed(sequence.results[i])
            /\ \A j \in DOMAIN sequence.results :
                  ~StepFailed(sequence.results[j]) => j <= i
    ELSE 0

\* the items of a response's content
Range(content) == {content[i] : i \in DOMAIN content}

\* C15 as stated: when the loop completes and captureIntermediate is false,
\* the output has the image of the last successful step, also when the final
\* command failed after an earlier one succeeded.
C15_LastSuccessfulImage ==
    [][(CompletesLoop /\ ~sequence.captureIntermediate /\ LastSuccessful > 0) =>
          Item("image", LastSuccessful) \in Range(routed'.content)]_vars

\* what the iterations have put into the output up to and including the
\* current one
Captured ==
    sequence.allContent
        \o (IF sequence.pc = "await" /\ ~SeqOutcome.threw
                  /\ (sequence.captureIntermediate \/ sequence.command.captureResult)
            THEN ItemsOf(SeqOutcome.content, sequence.index)
            ELSE <<>>)

\* what the returning call puts into the output after the iterations
AfterLoop == SubSeq(routed'.content, Len(Captured) + 1, Len(routed'.content))

\* C15 amended: when the loop completes and captureIntermediate is false,
\* the output gets, after what the steps captured and before the summary, the
\* image items (and no text) of the final step's response if that step was
\* recorded as a success, and nothing if the final command failed, even when
\* an earlier one succeeded.
C15_FinalStepImage ==
    [][(CompletesLoop /\ ~sequence.captureIntermediate) =>
          /\ SubSeq(routed'.content, 1, Len(Captured)) = Captured
          /\ AfterLoop # <<>>
          /\ AfterLoop[Len(AfterLoop)] = Item("text", 0)
          /\ \A i \in 1..(Len(AfterLoop) - 1) :
                AfterLoop[i] = Item("image", Get(sequence.length))
          /\ Len(AfterLoop) - 1
                = IF LastThrew THEN 0
                  ELSE Len(SelectSeq(SeqOutcome.content, IsImage))]_vars

\* run with stopOnError = false and captureIntermediate = false,
\* [gamepad_button on Windows, an unregistered tool] returned without an image
C15_Witness ==
    /\ sequence.pc = "returned"
    /\ ~sequence.stopOnError
    /\ ~sequence.captureIntermediate
    /\ isWindows
    /\ Len(invoked) = 1
    /\ invoked[1].tool = "gamepad"
    /\ Len(Get(routed.summary).results) = 2
    /\ ~Get(routed.summary).results[2].success
    /\ \A item \in Range(routed.content) : item.type # "image"

----------------------------------------------------------------------------
(* Claims about the shared targeting context *)

\* a step in which the client's call `name` with `params` returns
Calls(name, params) == RouterTool(name, params)

\* the call that just returned did not fail
Succeeded == ~routed'.isError /\ ~routed'.threw

\* C16: effective(e) is e for every explicit target e, whatever is stored;
\* effective(undefined) is the stored selection when there is one, 0
\* included, and none when there is none: at startup without a matched
\* window, and again after select(null); after a select(t) that succeeded it
\* is t.
C16_EffectiveTarget ==
    /\ [](/\ \A e \in TargetIds : getEffectiveWindow(Some(e)) = Some(e)
          /\ selectedWindowId # Absent => getEffectiveWindow(Absent) = selectedWindowId
          /\ selectedWindowId = Absent => getEffectiveWindow(Absent) = Absent)
    /\ [][/\ (Calls(<<"windows", "select">>, Sel(Null)) /\ Succeeded)
               => getEffectiveWindow(Absent)' = Absent
          /\ \A t \in TargetIds :
                (Calls(<<"windows", "select">>, Sel(Some(t))) /\ Succeeded)
                   => getEffectiveWindow(Absent)' = Some(t)]_vars

\* with window 0 selected, a key press into window 1 succeeded
C16_Witness ==
    /\ selectedWindowId = Some(0)
    /\ Len(invoked) = 1
    /\ invoked[1].action = <<"keyboard", "press">>
    /\ invoked[1].window = Some(1)
    /\ ~routed.isError
    /\ ~routed.threw
    /\ routed.content # <<>>

\* the messages of validateWindowId's errors, which name the valid range
InvalidTargetMessages ==
    {"Invalid window ID: cannot be negative",
     "Invalid window ID: exceeds available windows"}

OutOfRange(t) == t < 0 \/ t >= NumWindows

\* C17: a call with explicit target t fails with an invalid-target error only
\* if t < 0 or t >= n, and whenever t < 0 or t >= n the call fails: ids
\* outside 0..n-1 are never accepted.
C17_InvalidTargetIff ==
    [][\A call \in TargetCalls :
          (call.params.window # Absent /\ Calls(call.name, call.params)) =>
             /\ (~Succeeded /\ routed'.message \in InvalidTargetMessages)
                   => OutOfRange(Get(call.params.window))
             /\ OutOfRange(Get(call.params.window)) => ~Succeeded]_vars

\* on Windows, gamepad_button into a window past the last one succeeded
C17_Witness ==
    /\ isWindows
    /\ Len(invoked) = 1
    /\ invoked[1].action = <<"gamepad", "button">>
    /\ invoked[1].window = Some(NumWindows)
    /\ ~routed.isError
    /\ ~routed.threw
    /\ routed.content # <<>>

\* the arguments of select: null, or a target id
SelectArgs == {Null} \cup {Some(t) : t \in TargetIds}

\* what current() returns once select(w) has stored w
Stored(w) == IF w = Null THEN Absent ELSE w

\* C18 (as stated): select never fails: for every target id t, or none, once
\* select(t) has returned current() is t (or none).
C18_SelectNeverFails ==
    [][\A w \in SelectArgs :
          Calls(<<"windows", "select">>, Sel(w)) =>
             /\ Succeeded
             /\ selectedWindowId' = Stored(w)]_vars

\* C18 (amended): select(none) and select(t) with 0 <= t < n succeed and
\* leave current() = none or t, whatever was stored before, so that the last
\* select that succeeded wins; select(t) with t < 0 or t >= n fails with an
\* invalid-target error and leaves current() as it was.
C18_SelectValidates ==
    [][\A w \in SelectArgs :
          Calls(<<"windows", "select">>, Sel(w)) =>
             IF w = Null \/ ~OutOfRange(Get(w))
             THEN /\ Succeeded
                  /\ selectedWindowId' = Stored(w)
             ELSE /\ routed'.isError
                  /\ routed'.message \in InvalidTargetMessages
                  /\ selectedWindowId' = selectedWindowId]_vars

\* select of an id past the last window failed and window 0 is still selected
C18_Witness ==
    /\ selectedWindowId = Some(0)
    /\ Len(invoked) = 1
    /\ invoked[1].action = <<"windows", "select">>
    /\ routed.isError
    /\ routed.message = "Invalid window ID: exceeds available windows"

\* a step in which the select operation ran: as a tool call, as the step of
\* a sequence, or as the command of an autopress
SelectRuns ==
    \/ \E w \in {Null} \cup Explicit : Calls(<<"windows", "select">>, Sel(w))
    \/ SeqSettle /\ sequence.command.action = <<"windows", "select">>
    \/ \E tick \in Ticks :
          /\ TickStep(tick)
          /\ TickCommand(tick).ioClass = "windows"
          /\ TickCommand(tick).action = <<"select">>

\* C19: the stored selection changes only in a step that runs the select
\* operation; every other step (a keyboard, mouse, gamepad, screenshot or
\* window-query call, the start, a step and the return of a sequence with or
\* without a shared target, every call and tick of the autopress service),
\* failing or not, leaves it as it was.
C19_OnlySelectWrites ==
    [][selectedWindowId' # selectedWindowId => SelectRuns]_vars

\* with window 1 selected, a sequence of one key press with the shared
\* target 0 has returned
C19_Witness ==
    /\ selectedWindowId = Some(1)
    /\ sequence.pc = "returned"
    /\ sequence.window = Some(0)
    /\ sequence.length = Some(1)
    /\ Len(invoked) = 1
    /\ invoked[1].action = <<"keyboard", "press">>
    /\ invoked[1].window = Some(0)

\* the tools of the input operations
InputTools == {"keyboard", "mouse", "gamepad"}

\* C20: when an input operation called with the explicit target t, while a
\* different selection s is stored, succeeds, the snapshot it returns shows t
\* and its text reports t as the target, not s.
C20_SnapshotOfEffectiveTarget ==
    [][\A call \in TargetCalls :
          (/\ Head(call.name) \in InputTools
           /\ call.params.window # Absent
           /\ selectedWindowId # Absent
           /\ selectedWindowId # call.params.window
           /\ Calls(call.name, call.params)
           /\ Succeeded)
             => /\ routed'.shown = call.params.window
                /\ routed'.selectedWindow = call.params.window]_vars

\* with window 1 selected, a key press into window 0 succeeded; its snapshot
\* shows window 1 and its text reports window 1
C20_Witness ==
    /\ selectedWindowId = Some(1)
    /\ Len(invoked) = 1
    /\ invoked[1].action = <<"keyboard", "press">>
    /\ invoked[1].window = Some(0)
    /\ ~routed.isError
    /\ ~routed.threw
    /\ routed.shown = Some(1)
    /\ routed.selectedWindow = Some(1)

----------------------------------------------------------------------------
(* Claims about the DI container *)

\* the names a client may ask for: the keys of the calls and one never
\* registered
AskedKeys == RegistryKeys \cup {"ghost"}

NotFound(outcome) ==
    outcome.threw /\ outcome.message = "No instance registered for key"

Returns(outcome, instance) == ~outcome.threw /\ outcome.value = Some(instance)

\* C21: resolve(name) fails with the not-found error for every name in a new
\* container and for every name after clear(); after register(name, x) it
\* returns x for that name, whatever was registered under it before, and
\* what it does for every other name is unchanged; resolve, has, getAll and
\* the client's changes to a returned Map change it for no name.
C21_ResolveLastRegistered ==
    /\ \A key \in AskedKeys : NotFound(resolveOrThrow(key))
    /\ [][/\ \A key \in RegistryKeys, instance \in RegistryInstances :
                Register(key, instance) =>
                   /\ Returns(resolveOrThrow(key)', instance)
                   /\ \A other \in AskedKeys \ {key} :
                         resolveOrThrow(other)' = resolveOrThrow(other)
          /\ Clear => \A key \in AskedKeys : NotFound(resolveOrThrow(key)')
          /\ \A key \in RegistryKeys : Resolve(key) => resolved' = resolveOrThrow(key)
          /\ ~(Clear \/ \E key \in RegistryKeys, instance \in RegistryInstances :
                            Register(key, instance))
                => \A key \in AskedKeys :
                      resolveOrThrow(key)' = resolveOrThrow(key)]_vars

\* resolve("mouse") returned the instance registered after the one that a
\* Map taken earlier still shows
C21_Witness ==
    /\ Returns(resolved, "MouseIOLegacy")
    /\ resolved.key = "mouse"
    /\ snapshot # Absent
    /\ "mouse" \in DOMAIN Get(snapshot).map
    /\ Get(snapshot).map["mouse"] = "MouseIO"
    /\ instances["mouse"] = "MouseIOLegacy"

\* C22: set and delete on the Map getAll() returned leave the container's
\* bindings as they were, and register and clear on the container leave the
\* bindings of a Map returned earlier as they were.
C22_SnapshotCopy ==
    [][/\ (\/ \E key \in RegistryKeys, instance \in RegistryInstances :
                SnapshotSet(key, instance)
           \/ \E key \in RegistryKeys : SnapshotDelete(key))
             => instances' = instances
       /\ (/\ snapshot # Absent
           /\ \/ Clear
              \/ \E key \in RegistryKeys, instance \in RegistryInstances :
                    Register(key, instance))
             => Bindings(Get(snapshot))' = Bindings(Get(snapshot))]_vars

\* the client holds a Map with a binding for "mouse" while the container,
\* cleared since, has none
C22_Witness ==
    /\ snapshot # Absent
    /\ DOMAIN Bindings(Get(snapshot)) = {"mouse"}
    /\ instances = <<>>
    /\ NotFound(resolved)
    /\ resolved.key = "mouse"

----------------------------------------------------------------------------
(* Claims about the failures of the IO classes *)

\* `word` occurs in `message`
Mentions(message, word) ==
    \E i \in 1..(Len(message) - Len(word) + 1) :
        SubSeq(message, i, i + Len(word) - 1) = word

\* the call failed: the handler threw, or returned an error response
Failed(response) == response.threw \/ response.isError

\* the backend calls a response stands for
Did(response) == {response.effects[i] : i \in DOMAIN response.effects}

\* the registered MouseIO is the variant that checks the jail and the target
MouseTargets == resolve("mouse") = "MouseIO"

\* the mouse_move calls without a coordinate
MovesWithoutCoordinate ==
    {call \in DeviceCalls :
        call.name = <<"mouse", "move">> /\ call.params.coordinate = Absent}

\* the checks MouseIO makes before it looks at the operation let the call with
\* explicit target `window` through
ReachesOperation(window) ==
    ~MouseTargets \/ (validateJailEnforcement = "" /\ focusEffectiveWindow(window) = "")

UnknownOperation(response, name) ==
    /\ Failed(response)
    /\ Mentions(response.message, "Unknown")
    /\ Mentions(response.message, Joined(name))

\* C24: for every capability a call of an operation it does not declare fails
\* with the unknown-operation failure naming capability and operation,
\* whatever the parameters, the platform, the jail and the selection are.
C24_UnknownOperation ==
    [][\A call \in UndeclaredCalls :
          Calls(call.name, call.params) => UnknownOperation(routed', call.name)]_vars

\* what does hold of such a call: it fails, and the classes that look at the
\* operation first (KeyboardIO, ScreenshotIO, WindowsIO) report it
C24_FailsAndFirstCheckedReports ==
    [][\A call \in UndeclaredCalls :
          Calls(call.name, call.params) =>
              /\ Failed(routed')
              /\ Head(call.name) \in {"keyboard", "screenshot", "windows"}
                    => /\ UnknownOperation(routed', call.name)
                       /\ routed'.effects = <<>>]_vars

\* an operation GamepadIO does not declare has failed with another failure
\* than the unknown-operation failure
C24_Witness ==
    /\ invoked # <<>>
    /\ invoked[1].action = <<"gamepad", "fly">>
    /\ Failed(routed)
    /\ ~UnknownOperation(routed, <<"gamepad", "fly">>)

\* an operation MouseIO does not declare has brought a window to the
\* foreground before it failed
C24_FocusedFirst ==
    /\ invoked # <<>>
    /\ invoked[1].action = <<"mouse", "fly">>
    /\ Failed(routed)
    /\ routed.effects = <<"focus">>

----------------------------------------------------------------------------
(* Claims about the controller capability *)

\* the controller backend is not available to a GamepadIO that has not
\* connected yet: the platform is not Windows, or the driver is missing
BackendUnavailable == ~gamepad.initialized /\ ~(isWindows /\ hasDriver)

\* the failure of initialize(): one of its two messages, each with the place
\* to get the driver from
BackendFailure(response) ==
    /\ Failed(response)
    /\ \/ Mentions(response.message, "not supported on this platform")
       \/ Mentions(response.message, "Failed to initialize gamepad")
    /\ Mentions(response.message, "https://github.com/nefarius/ViGEmBus")

Neutral(controller) ==
    /\ \A a \in Axes : controller.axes[a] = 0
    /\ controller.buttons = {}

\* C26: once a successful gamepad_reset has returned, both sticks, both
\* triggers and the d-pad are at 0 and every button is up, whatever the
\* earlier calls left and whichever buttons overlapping calls hold down.
C26_ResetNeutral ==
    [][Calls(<<"gamepad", "reset">>, NoParams) /\ ~Failed(routed')
          => Neutral(gamepad')]_vars

\* a reset has returned while a gamepad_button call was holding its button
C26_Witness ==
    /\ invoked # <<>>
    /\ invoked[1].action = <<"gamepad", "reset">>
    /\ ~Failed(routed)
    /\ gamepad.holding # {}
    /\ Neutral(gamepad)

\* before a reset: a trigger pressed, a stick off centre and a button down
C26_NotNeutralBefore ==
    /\ gamepad.axes["leftTrigger"] = 255
    /\ gamepad.axes["leftX"] = 32767
    /\ gamepad.buttons # {}

----------------------------------------------------------------------------
(* Claims about the window jail *)

\* the windows getWindows() lists
Live == {windows[i] : i \in DOMAIN windows}

\* the jail is enforced and its window is not found: nothing is selected, or
\* the window that was selected as the jailed one is no longer there
JailedWindowMissing ==
    /\ windowJail.enforced
    /\ \/ selectedWindowId = Absent
       \/ /\ windowJail.jailedWindow # Absent
          /\ Get(windowJail.jailedWindow) \notin Live

\* the keyboard, mouse, gamepad and screenshot calls
JailedCalls ==
    {call \in DeviceCalls :
        Head(call.name) \in {"keyboard", "mouse", "gamepad", "screenshot"}}

\* C27: while the jail is enforced and its window is not found, every
\* keyboard, mouse, gamepad and screenshot call returns an error and makes no
\* backend call: no focus, no key, no pointer or button action, no capture.
C27_JailBlocks ==
    [][\A call \in JailedCalls :
          Calls(call.name, call.params) /\ JailedWindowMissing =>
              /\ Failed(routed')
              /\ routed'.effects = <<>>]_vars

\* the jailed window has closed, and a key press has gone to the window that
\* took its place in the list
C27_Witness ==
    /\ JailedWindowMissing
    /\ invoked # <<>>
    /\ invoked[1].action = <<"keyboard", "press">>
    /\ invoked[1].window = Absent
    /\ ~Failed(routed)
    /\ routed.effects = <<"focus", "key", "capture">>
    /\ routed.focused # Absent
    /\ routed.focused # windowJail.jailedWindow

\* what the check of the jail does ensure: with the jail enforced and nothing
\* selected, the classes that call validateJailEnforcement fail without a
\* backend call
C27_BlocksWithoutSelection ==
    [][\A call \in JailedCalls :
          /\ Calls(call.name, call.params)
          /\ windowJail.enforced
          /\ selectedWindowId = Absent
          /\ Head(call.name) = "mouse" => MouseTargets
          => /\ Failed(routed')
             /\ routed'.effects = <<>>]_vars

----------------------------------------------------------------------------
(* Claims about createErrorResponse *)

\* the string form String(value) of the values of the calls, written out
StringForm(value) ==
    CASE value.kind = "string" -> value.str
      [] value.kind = "number" ->
            [n \in Numbers |-> CASE n = -12 -> "-12" [] n = 0 -> "0"
                                 [] n = 7 -> "7" [] n = 305 -> "305"][value.num]
      [] value.kind = "boolean" -> IF value.num = 1 THEN "true" ELSE "false"
      [] value.kind = "null" -> "null"
      [] value.kind = "undefined" -> "undefined"
      [] value.kind = "object" -> "[object Object]"

\* C28: for every error value and context the response of
\* createErrorResponse(error, context) is flagged isError and has exactly one
\* text item; its JSON has success false, error.message the error's message
\* (the string form of a value that is not an Error), error.name the error's
\* name ("Error" for such a value) and error.context the context, absent when
\* none was given.
C28_ErrorResponse ==
    errorCall.response # Absent =>
        LET error == Get(errorCall.error)
            response == Get(errorCall.response)
            json == Get(response.json)
        IN  /\ response.isError
            /\ ~response.threw
            /\ response.content = <<"text">>
            /\ response.json # Absent
            /\ json.success = FALSE
            /\ json.error.message =
                  IF error.kind = "Error" THEN error.message ELSE StringForm(error)
            /\ json.error.name = IF error.kind = "Error" THEN error.name ELSE "Error"
            /\ IF errorCall.context = Absent
               THEN "context" \notin DOMAIN json.error
               ELSE json.error.context = Get(errorCall.context)

\* a TypeError was turned into a response without a context
C28_Witness ==
    /\ errorCall.response # Absent
    /\ Get(errorCall.error).kind = "Error"
    /\ Get(errorCall.error).name = "TypeError"
    /\ errorCall.context = Absent
    /\ Get(Get(errorCall.response).json).error.name = "TypeError"

----------------------------------------------------------------------------
(* Claims about the order of the steps of a sequence *)

\* a handler of the sequence call is invoked in this step
InvokesHandler == sequence.pc = "loop" /\ invoked' # invoked

\* C29: within one sequence call the handlers are invoked in list order and
\* one at a time: the handler of a command is invoked only when every command
\* before it has completed (its result, success or failure, is recorded),
\* later in the list than every handler invoked before, and while a handler is
\* awaited no other handler is invoked.
C29_OneAtATimeInOrder ==
    /\ [][InvokesHandler =>
             /\ Len(sequence.results) = sequence.index - 1
             /\ Len(invoked') = Len(invoked) + 1
             /\ invoked'[Len(invoked')].index = sequence.index
             /\ \A k \in DOMAIN invoked : invoked[k].index < sequence.index
             /\ sequence'.pc = "await"]_vars
    /\ [][sequence.pc = "await" =>
             /\ invoked' = invoked
             /\ sequence'.pc = "returned"
                   \/ /\ sequence'.pc = "loop"
                      /\ sequence'.index = sequence.index + 1
                      /\ Len(sequence'.results) = sequence.index]_vars

\* the handler of the third command is awaited after the handlers of the
\* first (which failed) and the second have completed
C29_Witness ==
    /\ sequence.pc = "await"
    /\ sequence.index = 3
    /\ Len(invoked) = 3
    /\ Len(sequence.results) = 2
    /\ StepFailed(sequence.results[1])

----------------------------------------------------------------------------
(* Claims about the timers of the autopress service *)

\* the timers of the entries in the active map
MapTimers == {autopresses[id].intervalId : id \in DOMAIN autopresses}

\* C30: after any interleaving of start, stop and stopAll calls, two start
\* calls for one active id that overlap at the awaited stop included, every
\* running timer is the timer of an entry in the active map.
C30_NoOrphanTimers == \A h \in intervals : h \in MapTimers

\* stopAll has returned with no start call suspended, the map is empty, and a
\* timer still runs
C30_Witness ==
    /\ returned.op = "stopAll"
    /\ starting = <<>>
    /\ autopresses = <<>>
    /\ intervals # {}

----------------------------------------------------------------------------
(* Claims about the ticks of an autopress entry *)

\* the callbacks of timer `handle` that are executing its command list
Executing(handle) ==
    {tick \in BagToSet(ticks) : tick.timer = handle}

\* C31: the ticks of one autopress entry never overlap: at no time are two
\* callbacks of the same timer executing the command list, also when a pass
\* over the commands takes longer than the interval.
C31_TicksNeverOverlap ==
    \A handle \in Handles :
        \A tick \in Executing(handle) :
            /\ Executing(handle) = {tick}
            /\ CopiesIn(tick, ticks) = 1

\* the timer of the active entry "x" has fired again while its earlier
\* callback was awaiting its second command
C31_Witness ==
    /\ <<"x">> \in DOMAIN autopresses
    /\ \E first, second \in Executing(autopresses[<<"x">>].intervalId) :
          first.pos = 2 /\ second.pos = 1

\* the active ids (getActiveIds)
ActiveIds == DOMAIN autopresses

\* C32: a start call that fails validation (id empty or blank, no commands,
\* interval below 10 ms, no command executor) throws and leaves the autopress
\* state as it was: the active ids are the same, and an active entry with the
\* id of the call keeps its commands, its interval and its running timer.
C32_FailedStartChangesNothing ==
    [][\A config \in Configs :
          Start(config) /\ (InvalidConfig(config) \/ ~commandExecutor) =>
              /\ returned'.op = "start"
              /\ returned'.threw
              /\ ActiveIds' = ActiveIds
              /\ intervals' = intervals
              /\ starting' = starting
              /\ \A id \in ActiveIds :
                    /\ autopresses'[id].config = autopresses[id].config
                    /\ autopresses'[id].intervalId = autopresses[id].intervalId
                    /\ id = config.id => autopresses'[id].intervalId \in intervals']_vars

\* with "x" active, a start for "x" without commands has failed, and "x" is
\* as it was, its timer running
C32_Witness ==
    /\ returned.op = "start"
    /\ returned.threw
    /\ returned.message = "At least one command is required"
    /\ <<"x">> \in ActiveIds
    /\ autopresses[<<"x">>].intervalId \in intervals
    /\ Len(autopresses[<<"x">>].config.commands) > 0

----------------------------------------------------------------------------
(* Claims about the output and the records of a sequence *)

\* the output of the sequence call after this step: what it has collected,
\* or what it returns
OutputNext ==
    IF sequence'.pc = "returned" THEN routed'.content ELSE sequence'.allContent

\* the full result of the step that settles in this step, as output items
FullResult == ItemsOf(SeqOutcome.content, sequence.index)

\* the output continues, behind what was collected before, with the full
\* result of the step that settles
AppendsFullResult ==
    /\ FullResult # <<>>
    /\ Len(OutputNext) >= Len(sequence.allContent) + Len(FullResult)
    /\ SubSeq(OutputNext, Len(sequence.allContent) + 1,
              Len(sequence.allContent) + Len(FullResult)) = FullResult

\* the step's own flag or the flag of the call asks for its result
CaptureAsked == sequence.captureIntermediate \/ sequence.command.captureResult

\* C33: the full result of a step that succeeded is appended to the output,
\* at the step's position, iff captureIntermediate or the step's captureResult
\* is set; nothing of a step that failed (its handler threw or answered with
\* an error) is appended.
C33_CaptureOnSuccessOnly ==
    [][sequence.pc = "await" =>
          IF Failed(SeqOutcome)
          THEN \A k \in DOMAIN OutputNext : OutputNext[k].step # sequence.index
          ELSE AppendsFullResult <=> CaptureAsked]_vars

\* the same with the engine's notion of failure: the handler threw
C33_CaptureUnlessThrown ==
    [][sequence.pc = "await" =>
          IF SeqOutcome.threw
          THEN \A k \in DOMAIN OutputNext : OutputNext[k].step # sequence.index
          ELSE AppendsFullResult <=> CaptureAsked]_vars

\* the error text of a step whose handler answered with an error response is
\* in the output
C33_Witness ==
    /\ sequence.pc = "loop"
    /\ Len(sequence.results) >= 1
    /\ sequence.results[1].isError
    /\ Item("text", 1) \in Range(sequence.allContent)

\* the record of a failed command
FailureOf(command, message) ==
    [tool |-> command.tool, action |-> command.action, success |-> FALSE,
     error |-> message]

\* C34: a step that names a capability the container does not hold is
\* recorded as a failed step with an error message naming the capability, no
\* handler is invoked for it and the sequence call does not fail; with
\* stopOnError the call returns at once with the error summary, without it
\* the call goes on to the next command or, behind the last, returns the
\* execution summary with the failure counted.
C34_UnknownCapabilityIsFailedStep ==
    [][\A command \in Commands :
          SeqInvoke(command) /\ ~has(command.tool) =>
              /\ invoked' = invoked
              /\ ~routed'.threw
              /\ Len(Recorded') = sequence.index
              /\ Recorded'[sequence.index]
                    = FailureOf(command, "Unknown tool: " \o command.tool)
              /\ IF sequence.stopOnError
                 THEN /\ sequence'.pc = "returned"
                      /\ Get(routed'.summary).status = "error"
                      /\ Get(routed'.summary).error = "Unknown tool: " \o command.tool
                 ELSE IF sequence.index < Get(sequence.length)
                 THEN /\ sequence'.pc = "loop"
                      /\ sequence'.index = sequence.index + 1
                 ELSE /\ sequence'.pc = "returned"
                      /\ Get(routed'.summary).status = "partial"
                      /\ Get(routed'.summary).failed >= 1]_vars

\* without stopOnError, the step after one with an unknown capability is
\* awaited
C34_Witness ==
    /\ sequence.pc = "await"
    /\ ~sequence.stopOnError
    /\ sequence.index = 2
    /\ sequence.results[1] # <<>>
    /\ ~sequence.results[1].success
    /\ sequence.results[1].tool = "ghost"

----------------------------------------------------------------------------
(* Claims about the controller as a state machine *)

\* the position of a stick of a controller
Position(controller, stick) ==
    <<controller.axes[stick \o "X"], controller.axes[stick \o "Y"]>>

StickNames == {"left", "right"}

\* the step is the return of the call `call`, and the call has not failed
ReturnsFrom(call) == Calls(call.name, call.params) /\ ~Failed(routed')

\* the calls that may move a stick: gamepad_stick and gamepad_reset
StickCalls ==
    {call \in GamepadCalls :
        call.name \in {<<"gamepad", "stick">>, <<"gamepad", "reset">>}}

\* C35: a stick set without a hold is at the set position when the call
\* returns, and no step other than a gamepad_stick call or a gamepad_reset
\* moves a stick; a stick set with a hold above 0 is at the centre when the
\* call returns; a button call returns with its button up.
C35_ControllerStateMachine ==
    /\ [][\A call \in GamepadCalls :
             /\ call.name = <<"gamepad", "stick">>
             /\ ~Released(call.params.hold, 0)
             /\ ReturnsFrom(call)
             => Position(gamepad', Get(call.params.stick))
                    = <<Get(call.params.x), Get(call.params.y)>>]_vars
    /\ [][\A stick \in StickNames :
             Position(gamepad', stick) # Position(gamepad, stick)
             => \/ \E call \in StickCalls : Calls(call.name, call.params)
                \/ StickHold(stick)
                \/ StickRelease(stick)]_vars
    /\ [][\A call \in GamepadCalls :
             /\ call.name = <<"gamepad", "stick">>
             /\ Released(call.params.hold, 0)
             /\ ReturnsFrom(call)
             => Position(gamepad', Get(call.params.stick)) = <<0, 0>>]_vars
    /\ [][\A stick \in StickNames :
             StickRelease(stick) => Position(gamepad', stick) = <<0, 0>>]_vars
    /\ [][\A call \in GamepadCalls :
             call.name = <<"gamepad", "button">> /\ ReturnsFrom(call)
             => Get(call.params.button) \notin gamepad'.buttons]_vars
    /\ [][\A button \in ButtonNames :
             ButtonRelease(button) => button \notin gamepad'.buttons]_vars

\* the left stick is where a call without a hold has put it, and a later
\* gamepad_button call has returned since
C35_Witness ==
    /\ Position(gamepad, "left") = <<32767, -32768>>
    /\ invoked # <<>>
    /\ invoked[1].action = <<"gamepad", "button">>
    /\ ~Failed(routed)
    /\ gamepad.buttons = {}

\* the outcome recorded last names the command `command`, and the outcomes
\* recorded before it are as they were
RecordsNext(command) ==
    /\ Len(Recorded') = sequence.index
    /\ SubSeq(Recorded', 1, sequence.index - 1) = summaryResults(sequence.results)
    /\ Recorded'[sequence.index].tool = command.tool
    /\ Recorded'[sequence.index].action = command.action

\* C36: a sequence call records one outcome per attempted command, in the
\* order of the commands: while the i-th command is attempted i - 1 outcomes
\* are recorded, when its attempt is over the i-th outcome is appended and
\* names the command's capability and operation, and in the summary
\* successful + failed is the number of outcomes, which is at most total.
C36_OneOutcomePerCommand ==
    /\ [](sequence.pc \in {"loop", "await"}
             => Len(sequence.results) = sequence.index - 1)
    /\ [][\A command \in Commands :
             SeqInvoke(command) =>
                IF sequence'.pc = "await" THEN sequence'.results = sequence.results
                ELSE RecordsNext(command)]_vars
    /\ [][SeqSettle => RecordsNext(sequence.command)]_vars
    /\ [](sequence.pc = "returned" /\ routed.summary # Absent =>
             LET summary == Get(routed.summary)
             IN  /\ summary.successful + summary.failed = Len(summary.results)
                 /\ Len(summary.results) <= summary.total
                 /\ summary.successful
                       = Cardinality({i \in DOMAIN summary.results :
                                         summary.results[i].success}))

\* a sequence of three commands has returned after its second, with one
\* success and one failure recorded in that order
C36_Witness ==
    /\ sequence.pc = "returned"
    /\ routed.summary # Absent
    /\ Get(routed.summary).total = 3
    /\ Len(Get(routed.summary).results) = 2
    /\ Get(routed.summary).results[1].success
    /\ Get(routed.summary).results[1].tool = "keyboard"
    /\ ~Get(routed.summary).results[2].success
    /\ Get(routed.summary).results[2].tool = "ghost"

\* how many times `item` occurs in `content`
Occurrences(item, content) ==
    Cardinality({i \in DOMAIN content : content[i] = item})

\* C37: in the output of a sequence call the image of a step occurs at most
\* once, whatever captureIntermediate and the steps' captureResult flags are.
C37_ImageAtMostOnce ==
    \A item \in Range(routed.content) :
        item.type = "image" => Occurrences(item, routed.content) <= 1

\* a sequence of one screenshot step with captureResult set, called without
\* captureIntermediate, has returned the step's image twice
C37_Witness ==
    /\ sequence.pc = "returned"
    /\ ~sequence.captureIntermediate
    /\ sequence.length = Some(1)
    /\ Get(routed.summary).status = "success"
    /\ Occurrences(Item("image", 1), routed.content) = 2

----------------------------------------------------------------------------
(* Claims about parameter validation *)

\* the call does not pass the parameter validation of its operation
FailsValidation(call) ==
    \/ /\ call.name = <<"mouse", "move">>
       /\ call.params.coordinate = Absent
    \/ /\ call.name = <<"keyboard", "press">>
       /\ call.params.keys = Absent
    \/ /\ call.name = <<"gamepad", "trigger">>
       /\ call.params.pressure # Absent
       /\ Get(call.params.pressure) \notin 0..255
    \/ /\ call.name = <<"gamepad", "stick">>
       /\ call.params.x # Absent /\ call.params.y # Absent
       /\ \/ Get(call.params.x) \notin -32768..32767
          \/ Get(call.params.y) \notin -32768..32767

InvalidCalls == {call \in DeviceCalls \cup GamepadCalls : FailsValidation(call)}

\* the call fails and has made no backend call and changed no axis or button
NoEffect ==
    /\ Failed(routed')
    /\ routed'.effects = <<>>
    /\ gamepad'.axes = gamepad.axes
    /\ gamepad'.buttons = gamepad.buttons

\* C38: a call that fails the parameter validation of its operation fails
\* without a backend side effect: no window is focused and no pointer, key,
\* axis or button state is changed.
C38_ValidationBeforeEffects ==
    [][\A call \in InvalidCalls : Calls(call.name, call.params) => NoEffect]_vars

\* the calls that fail validation and do not go through MouseIO with a target
C38_ExceptMouseTarget ==
    [][\A call \in InvalidCalls :
          /\ Calls(call.name, call.params)
          /\ call.name = <<"mouse", "move">> =>
                ~MouseTargets \/ getEffectiveWindow(call.params.window) = Absent
          => NoEffect]_vars

\* a mouse_move without coordinate has failed, and the window selected at the
\* time was focused for it
C38_Witness ==
    /\ invoked # <<>>
    /\ invoked[1].action = <<"mouse", "move">>
    /\ invoked[1].window = Absent
    /\ selectedWindowId # Absent
    /\ Failed(routed)
    /\ "focus" \in Did(routed)
    /\ "move" \notin Did(routed)

----------------------------------------------------------------------------
(* Claims about the initialization of the controller backend *)

\* C39: at most one ViGEm client and one controller are ever created, also
\* when two controller operations are in initialize() together.
C39_InitializedOnce == gamepad.clients <= 1 /\ gamepad.controllers <= 1

\* a Router call and a tick began before the first initialization was over:
\* both have created a client and a controller, and the backend is initialized
C39_Witness ==
    /\ gamepad.initialized
    /\ gamepad.importing = {}
    /\ gamepad.connecting = {}
    /\ gamepad.clients = 2
    /\ gamepad.controllers = 2

====
